---- MODULE Spec2Model ----
(***************************************************************************)
(* Bughouse engine: the single-board rules engine (shared/chess.ts) and    *)
(* the multi-board orchestrator with clocks and premoves (shared/room.ts), *)
(* polled for timeouts by server/server.ts.                                *)
(*                                                                         *)
(* A board cell is a record [type, color].  JavaScript keeps two distinct  *)
(* "empty" values apart, undefined (createEmptyBoard, every vacated        *)
(* square) and null (what JSON transport turns undefined into), and the    *)
(* engine's tests `!== null` tell them apart, so the model keeps both.     *)
(***************************************************************************)
EXTENDS Integers, Sequences, FiniteSets, TLC

VARIABLES
    matches,    \* Game.matches: index -> Match
    players,    \* Room.players: id -> PlayerStatus
    status,     \* Room.status
    now,        \* the wall clock, Date.now()
    syncs,      \* how often the state has been taken through the transport
    last        \* what the last operation did and returned

vars == <<matches, players, status, now, syncs, last>>

(***************************************************************************)
(* Values                                                                  *)
(***************************************************************************)
WHITE == 1
BLACK == 0
Colors == {WHITE, BLACK}

KING == "K"
QUEEN == "Q"
ROOK == "R"
BISHOP == "B"
KNIGHT == "N"
PAWN == "P"
PROMOTED_QUEEN == "Q+"

SHORT == "short"
LONG == "long"

RED == "red"
BLUE == "blue"

LOBBY == "lobby"
PLAYING == "playing"

READY == "ready"
NOT_READY == "not-ready"

Undefined == [type |-> "undefined", color |-> -1]
Null == [type |-> "null", color |-> -1]

\* JavaScript truthiness of a cell / of an optional piece.
IsPiece(cell) == cell.type \notin {"undefined", "null"}

Piece(type, color) == [type |-> type, color |-> color]

Rows == 0 .. 7

NoPosition == [loc |-> "undefined", row |-> -1, col |-> -1]

createPosition(row, col) == [loc |-> "board", row |-> row, col |-> col]

PocketPosition(color, type) == [loc |-> "pocket", color |-> color, type |-> type]

Move(from, to) == [from |-> from, to |-> to]

Abs(x) == IF x < 0 THEN -x ELSE x

Sign(x) == IF x > 0 THEN 1 ELSE IF x < 0 THEN -1 ELSE 0

invertColor(color) == IF color = WHITE THEN BLACK ELSE WHITE

(***************************************************************************)
(* Chess: construction                                                     *)
(***************************************************************************)
createEmptyBoard == [row \in Rows |-> [col \in Rows |-> Undefined]]

backRank == <<ROOK, KNIGHT, BISHOP, QUEEN, KING, BISHOP, KNIGHT, ROOK>>

EmptyPocket == [t \in {} |-> 0]

reset ==
    [board |-> [row \in Rows |-> [col \in Rows |->
                    CASE row = 0 -> Piece(backRank[col + 1], BLACK)
                      [] row = 1 -> Piece(PAWN, BLACK)
                      [] row = 6 -> Piece(PAWN, WHITE)
                      [] row = 7 -> Piece(backRank[col + 1], WHITE)
                      [] OTHER -> createEmptyBoard[row][col]]],
     whitePocket |-> EmptyPocket,
     blackPocket |-> EmptyPocket,
     turn |-> WHITE,
     whiteCastleShort |-> TRUE,
     whiteCastleLong |-> TRUE,
     blackCastleShort |-> TRUE,
     blackCastleLong |-> TRUE,
     enPassantTarget |-> NoPosition]

\* Chess.deserialize of a state that went through the JSON transport
\* (socket.io): every undefined array element arrives as null.
deserialize(c) ==
    [c EXCEPT !.board = [row \in Rows |-> [col \in Rows |->
                            IF IsPiece(c.board[row][col]) THEN c.board[row][col]
                            ELSE Null]]]

(***************************************************************************)
(* Chess: pockets                                                          *)
(***************************************************************************)
getPocket(c, color) == IF color = WHITE THEN c.whitePocket ELSE c.blackPocket

\* pocket.get(type) || 0
PocketCount(pocket, type) == IF type \in DOMAIN pocket THEN pocket[type] ELSE 0

PocketSet(pocket, type, n) ==
    [t \in (DOMAIN pocket) \cup {type} |-> IF t = type THEN n ELSE pocket[t]]

PocketDelete(pocket, type) == [t \in (DOMAIN pocket) \ {type} |-> pocket[t]]

WithPocket(c, color, pocket) ==
    IF color = WHITE THEN [c EXCEPT !.whitePocket = pocket]
    ELSE [c EXCEPT !.blackPocket = pocket]

getPiece(c, pos) ==
    IF pos.loc = "board" THEN c.board[pos.row][pos.col]
    ELSE IF PocketCount(getPocket(c, pos.color), pos.type) > 0
         THEN Piece(pos.type, pos.color)
         ELSE Undefined

addToPocket(c, piece) ==
    LET pocket == getPocket(c, piece.color)
        typeToAdd == IF piece.type = PROMOTED_QUEEN THEN PAWN ELSE piece.type
    IN WithPocket(c, piece.color,
                  PocketSet(pocket, typeToAdd, PocketCount(pocket, typeToAdd) + 1))

\* removeFromPocket keeping an entry whose count has reached zero.
removeFromPocketKeepingZero(c, pieceType, color) ==
    LET pocket == getPocket(c, color)
        count == PocketCount(pocket, pieceType)
    IN IF count > 0
       THEN WithPocket(c, color, PocketSet(pocket, pieceType, count - 1))
       ELSE c

removeFromPocket(c, pieceType, color) ==
    LET pocket == getPocket(c, color)
        count == PocketCount(pocket, pieceType)
    IN IF count > 0
       THEN WithPocket(c, color,
                IF count - 1 = 0 THEN PocketDelete(pocket, pieceType)
                ELSE PocketSet(pocket, pieceType, count - 1))
       ELSE c

(***************************************************************************)
(* Chess: attack and check detection                                       *)
(***************************************************************************)
KingSquares(c, color) ==
    {sq \in Rows \X Rows : c.board[sq[1]][sq[2]] = Piece(KING, color)}

\* Row-major scan: the first king found.
findKing(c, color) ==
    LET kings == KingSquares(c, color)
        first == CHOOSE sq \in kings :
                    \A o \in kings : sq[1] * 8 + sq[2] <= o[1] * 8 + o[2]
    IN IF kings = {} THEN NoPosition
       ELSE createPosition(first[1], first[2])

\* Walks from the square after `from` up to (excluding) `to`; a square blocks
\* unless it is exactly null.
isPathClear(c, from, to) ==
    LET rowStep == Sign(to.row - from.row)
        colStep == Sign(to.col - from.col)
        dist == IF Abs(to.row - from.row) > Abs(to.col - from.col)
                THEN Abs(to.row - from.row) ELSE Abs(to.col - from.col)
    IN \A k \in 1 .. (dist - 1) :
          c.board[from.row + k * rowStep][from.col + k * colStep] = Null

isDiagonalPath(c, from, to) ==
    IF Abs(from.row - to.row) # Abs(from.col - to.col) THEN FALSE
    ELSE isPathClear(c, from, to)

isStraightPath(c, from, to) ==
    IF from.row # to.row /\ from.col # to.col THEN FALSE
    ELSE isPathClear(c, from, to)

canPieceAttack(c, from, to) ==
    LET piece == c.board[from.row][from.col]
    IN IF ~IsPiece(piece) THEN FALSE
       ELSE CASE piece.type = PAWN ->
                    LET direction == IF piece.color = WHITE THEN -1 ELSE 1
                    IN Abs(from.col - to.col) = 1 /\ to.row - from.row = direction
              [] piece.type = KNIGHT ->
                    LET dr == Abs(from.row - to.row)
                        dc == Abs(from.col - to.col)
                    IN (dr = 2 /\ dc = 1) \/ (dr = 1 /\ dc = 2)
              [] piece.type = BISHOP -> isDiagonalPath(c, from, to)
              [] piece.type = ROOK -> isStraightPath(c, from, to)
              [] piece.type \in {QUEEN, PROMOTED_QUEEN} ->
                    isDiagonalPath(c, from, to) \/ isStraightPath(c, from, to)
              [] piece.type = KING ->
                    Abs(from.row - to.row) <= 1 /\ Abs(from.col - to.col) <= 1
              [] OTHER -> FALSE

isSquareAttacked(c, pos, color) ==
    \E row \in Rows, col \in Rows :
        /\ IsPiece(c.board[row][col])
        /\ c.board[row][col].color = color
        /\ canPieceAttack(c, createPosition(row, col), pos)

isInCheck(c, color) ==
    LET kingPos == findKing(c, color)
    IN IF kingPos = NoPosition THEN FALSE
       ELSE isSquareAttacked(c, kingPos, invertColor(color))

(***************************************************************************)
(* Chess: strict legality                                                  *)
(***************************************************************************)
SetCell(board, row, col, cell) == [board EXCEPT ![row][col] = cell]

CastleRight(c, color, side) ==
    IF color = WHITE
    THEN (IF side = SHORT THEN c.whiteCastleShort ELSE c.whiteCastleLong)
    ELSE (IF side = SHORT THEN c.blackCastleShort ELSE c.blackCastleLong)

canCastle(c, color, side) ==
    LET row == IF color = WHITE THEN 7 ELSE 0
        kingCol == 4
        rookCol == IF side = SHORT THEN 7 ELSE 0
        king == c.board[row][kingCol]
        rook == c.board[row][rookCol]
        start == (IF kingCol < rookCol THEN kingCol ELSE rookCol) + 1
        end == IF kingCol > rookCol THEN kingCol ELSE rookCol
        enemyColor == invertColor(color)
        transit == IF side = SHORT THEN {4, 5, 6} ELSE {4, 3, 2}
    IN /\ CastleRight(c, color, side)
       /\ king = Piece(KING, color)
       /\ rook = Piece(ROOK, color)
       /\ ~isInCheck(c, color)
       /\ \A col \in start .. (end - 1) : c.board[row][col] = Null
       /\ \A col \in transit :
             ~isSquareAttacked(c, createPosition(row, col), enemyColor)

isCastlingMove(c, from, to) ==
    LET piece == c.board[from.row][from.col]
    IN /\ IsPiece(piece)
       /\ piece.type = KING
       /\ Abs(from.col - to.col) = 2
       /\ from.row = to.row

isEnPassantMove(c, from, to) ==
    /\ c.enPassantTarget.loc = "board"
    /\ IsPiece(c.board[from.row][from.col])
    /\ c.board[from.row][from.col].type = PAWN
    /\ to.row = c.enPassantTarget.row
    /\ to.col = c.enPassantTarget.col

\* The kind-specific movement pattern of isLegalMove (its switch), castling
\* excluded.
PatternValid(c, from, to) ==
    LET piece == c.board[from.row][from.col]
        targetPiece == c.board[to.row][to.col]
        direction == IF piece.color = WHITE THEN -1 ELSE 1
    IN CASE piece.type = PAWN ->
                IF from.col = to.col
                THEN \/ (to.row - from.row = direction /\ ~IsPiece(targetPiece))
                     \/ /\ to.row - from.row # direction
                        /\ to.row - from.row = 2 * direction
                        /\ ~IsPiece(targetPiece)
                        /\ from.row = (IF piece.color = WHITE THEN 6 ELSE 1)
                        /\ isPathClear(c, from, to)
                ELSE /\ Abs(from.col - to.col) = 1
                     /\ to.row - from.row = direction
                     /\ (IsPiece(targetPiece) \/ isEnPassantMove(c, from, to))
          [] piece.type = KNIGHT ->
                LET dr == Abs(from.row - to.row)
                    dc == Abs(from.col - to.col)
                IN (dr = 2 /\ dc = 1) \/ (dr = 1 /\ dc = 2)
          [] piece.type = BISHOP -> isDiagonalPath(c, from, to)
          [] piece.type = ROOK -> isStraightPath(c, from, to)
          [] piece.type \in {QUEEN, PROMOTED_QUEEN} ->
                isDiagonalPath(c, from, to) \/ isStraightPath(c, from, to)
          [] piece.type = KING ->
                Abs(from.row - to.row) <= 1 /\ Abs(from.col - to.col) <= 1
          [] OTHER -> FALSE

\* The board isLegalMove tests for check: the en-passant-captured pawn
\* removed, the piece put on `to`, `from` vacated.
SimulatedMove(c, from, to) ==
    LET piece == c.board[from.row][from.col]
        b0 == IF piece.type = PAWN /\ isEnPassantMove(c, from, to)
              THEN SetCell(c.board, from.row, to.col, Undefined)
              ELSE c.board
        b1 == SetCell(b0, to.row, to.col, piece)
    IN [c EXCEPT !.board = SetCell(b1, from.row, from.col, Undefined)]

\* isLegalMove without its simulate-and-test step: the movement pattern
\* alone decides.
PatternAloneDecides(c, from, to) == TRUE

\* The simulate-and-test step of isLegalMove; the board is restored after it.
LeavesKingSafe(c, from, to) ==
    ~isInCheck(SimulatedMove(c, from, to), c.board[from.row][from.col].color)

isLegalMove(c, from, to) ==
    IF from.loc # "board" \/ to.loc # "board" THEN FALSE
    ELSE LET piece == c.board[from.row][from.col]
             targetPiece == c.board[to.row][to.col]
         IN IF ~IsPiece(piece) THEN FALSE
            ELSE IF c.turn # piece.color THEN FALSE
            ELSE IF IsPiece(targetPiece) /\ targetPiece.color = piece.color THEN FALSE
            ELSE IF piece.type = KING /\ isCastlingMove(c, from, to)
                 THEN canCastle(c, piece.color,
                                IF to.col > from.col THEN SHORT ELSE LONG)
            ELSE IF ~PatternValid(c, from, to) THEN FALSE
            ELSE LeavesKingSafe(c, from, to)

\* The checks of isLegalDrop that come before the tentative placement.
DropPlaceable(c, pos, pieceType, color) ==
    /\ pos.loc = "board"
    /\ c.board[pos.row][pos.col] = Null
    /\ c.turn = color
    /\ PocketCount(getPocket(c, color), pieceType) > 0
    /\ ~(pieceType = PAWN /\ (pos.row = 0 \/ pos.row = 7))

isLegalDrop(c, pos, pieceType, color) ==
    /\ DropPlaceable(c, pos, pieceType, color)
    /\ ~isInCheck([c EXCEPT !.board =
                      SetCell(c.board, pos.row, pos.col, Piece(pieceType, color))],
                  color)

\* The board isLegalDrop leaves behind: once the piece has been tentatively
\* placed, the square is written back as undefined, whatever it held.
AfterIsLegalDrop(c, pos, pieceType, color) ==
    IF DropPlaceable(c, pos, pieceType, color)
    THEN [c EXCEPT !.board = SetCell(c.board, pos.row, pos.col, Undefined)]
    ELSE c

(***************************************************************************)
(* Chess: relaxed (premove) legality                                       *)
(***************************************************************************)
isLegalPremove(c, from, to) ==
    LET piece == c.board[from.row][from.col]
        direction == IF piece.color = WHITE THEN -1 ELSE 1
        rowDiff == Abs(from.row - to.row)
        colDiff == Abs(from.col - to.col)
        notSameSquare == ~(from.row = to.row /\ from.col = to.col)
    IN IF ~IsPiece(piece) THEN FALSE
       ELSE CASE piece.type = PAWN ->
                    IF from.col = to.col
                    THEN \/ to.row - from.row = direction
                         \/ /\ to.row - from.row = 2 * direction
                            /\ from.row = (IF piece.color = WHITE THEN 6 ELSE 1)
                    ELSE colDiff = 1 /\ to.row - from.row = direction
              [] piece.type = KNIGHT ->
                    (rowDiff = 2 /\ colDiff = 1) \/ (rowDiff = 1 /\ colDiff = 2)
              [] piece.type = BISHOP -> rowDiff = colDiff /\ from.row # to.row
              [] piece.type = ROOK ->
                    (from.row = to.row \/ from.col = to.col) /\ notSameSquare
              [] piece.type \in {QUEEN, PROMOTED_QUEEN} ->
                    (rowDiff = colDiff \/ from.row = to.row \/ from.col = to.col)
                    /\ notSameSquare
              [] piece.type = KING ->
                    IF rowDiff <= 1 /\ colDiff <= 1 /\ rowDiff + colDiff > 0 THEN TRUE
                    ELSE IF from.row = to.row /\ colDiff = 2
                    THEN LET homeRank == IF piece.color = WHITE THEN 7 ELSE 0
                             side == IF to.col > from.col THEN SHORT ELSE LONG
                         IN IF from.row # homeRank \/ from.col # 4 THEN FALSE
                            ELSE IF piece.color = WHITE
                            THEN ~ \/ (side = SHORT /\ ~c.whiteCastleShort
                                       /\ to.col > from.col)
                                   \/ (side = LONG /\ ~c.whiteCastleLong
                                       /\ to.col < from.col)
                            ELSE ~ \/ (side = SHORT /\ ~c.blackCastleShort
                                       /\ to.col < from.col)
                                   \/ (side = LONG /\ ~c.blackCastleLong
                                       /\ to.col > from.col)
                    ELSE FALSE
              [] OTHER -> FALSE

\* isLegalPredrop asking for more than one piece of the kind in the pocket.
isLegalPredropWithSpare(c, from, to) ==
    /\ to.loc = "board"
    /\ c.board[to.row][to.col] = Null
    /\ PocketCount(getPocket(c, from.color), from.type) > 1
    /\ ~(from.type = PAWN /\ (to.row = 0 \/ to.row = 7))

isLegalPredrop(c, from, to) ==
    /\ to.loc = "board"
    /\ c.board[to.row][to.col] = Null
    /\ PocketCount(getPocket(c, from.color), from.type) > 0
    /\ ~(from.type = PAWN /\ (to.row = 0 \/ to.row = 7))

(***************************************************************************)
(* Chess: checkmate                                                        *)
(***************************************************************************)
\* The `undefined` of a `Color | undefined`.
NoColor == -1

\* "Try all possible moves for the current player".
LegalMoveExists(c) ==
    \E fromRow \in Rows : \E fromCol \in Rows :
        /\ IsPiece(c.board[fromRow][fromCol])
        /\ c.board[fromRow][fromCol].color = c.turn
        /\ \E toRow \in Rows : \E toCol \in Rows :
              isLegalMove(c, createPosition(fromRow, fromCol),
                          createPosition(toRow, toCol))

RECURSIVE ScanDrops(_, _, _)
\* "Try dropping pieces from pocket on all squares": the kinds in the
\* pocket's iteration order, the squares row by row from index `square` on,
\* each test run on the board the tests before it have left.
ScanDrops(c, kinds, square) ==
    IF kinds = <<>> THEN c.turn
    ELSE IF square = 64 THEN ScanDrops(c, Tail(kinds), 0)
    ELSE LET pos == createPosition(square \div 8, square % 8)
         IN IF isLegalDrop(c, pos, Head(kinds), c.turn) THEN NoColor
            ELSE ScanDrops(AfterIsLegalDrop(c, pos, Head(kinds), c.turn),
                           kinds, square + 1)

\* isCheckmate looking at board moves only.
isCheckmateByMovesAlone(c, kinds) ==
    IF ~isInCheck(c, c.turn) THEN NoColor
    ELSE IF LegalMoveExists(c) THEN NoColor
    ELSE c.turn

\* Chess.isCheckmate; `kinds` is the order in which the pocket of the side
\* to move yields its entries with a positive count.
isCheckmate(c, kinds) ==
    IF ~isInCheck(c, c.turn) THEN NoColor
    ELSE IF LegalMoveExists(c) THEN NoColor
    ELSE ScanDrops(c, kinds, 0)

(***************************************************************************)
(* Chess: execution.  A result is [chess, success, captured]: the Board    *)
(* State the call leaves behind and the MoveResult it returns.             *)
(***************************************************************************)
Result(c, success, captured) ==
    [chess |-> c, success |-> success, captured |-> captured]

\* dropPiece handing the turn over under premove as well.
dropPieceTurningAlways(c, from, to, premove) ==
    IF premove
    THEN IF ~isLegalPredrop(c, from, to) THEN Result(c, FALSE, Undefined)
         ELSE LET placed == [c EXCEPT
                    !.board = SetCell(c.board, to.row, to.col,
                                      Piece(from.type, from.color)),
                    !.enPassantTarget = NoPosition,
                    !.turn = invertColor(c.turn)]
              IN Result(removeFromPocket(placed, from.type, from.color),
                        TRUE, Undefined)
    ELSE IF ~isLegalDrop(c, to, from.type, from.color)
         THEN Result(AfterIsLegalDrop(c, to, from.type, from.color), FALSE, Undefined)
         ELSE LET placed == [c EXCEPT
                    !.board = SetCell(c.board, to.row, to.col,
                                      Piece(from.type, from.color)),
                    !.enPassantTarget = NoPosition,
                    !.turn = invertColor(c.turn)]
              IN Result(removeFromPocket(placed, from.type, from.color),
                        TRUE, Undefined)

\* dropPiece leaving the en-passant target as it was.
dropPieceKeepingTarget(c, from, to, premove) ==
    IF premove
    THEN IF ~isLegalPredrop(c, from, to) THEN Result(c, FALSE, Undefined)
         ELSE LET placed == [c EXCEPT
                    !.board = SetCell(c.board, to.row, to.col,
                                      Piece(from.type, from.color))]
              IN Result(removeFromPocket(placed, from.type, from.color),
                        TRUE, Undefined)
    ELSE IF ~isLegalDrop(c, to, from.type, from.color)
         THEN Result(AfterIsLegalDrop(c, to, from.type, from.color), FALSE, Undefined)
         ELSE LET placed == [c EXCEPT
                    !.board = SetCell(c.board, to.row, to.col,
                                      Piece(from.type, from.color)),
                    !.turn = invertColor(c.turn)]
              IN Result(removeFromPocket(placed, from.type, from.color),
                        TRUE, Undefined)

dropPiece(c, from, to, premove) ==
    IF premove
    THEN IF ~isLegalPredrop(c, from, to) THEN Result(c, FALSE, Undefined)
         ELSE LET placed == [c EXCEPT
                    !.board = SetCell(c.board, to.row, to.col,
                                      Piece(from.type, from.color)),
                    !.enPassantTarget = NoPosition]
              IN Result(removeFromPocket(placed, from.type, from.color),
                        TRUE, Undefined)
    ELSE IF ~isLegalDrop(c, to, from.type, from.color)
         THEN Result(AfterIsLegalDrop(c, to, from.type, from.color), FALSE, Undefined)
         ELSE LET placed == [c EXCEPT
                    !.board = SetCell(c.board, to.row, to.col,
                                      Piece(from.type, from.color)),
                    !.enPassantTarget = NoPosition,
                    !.turn = invertColor(c.turn)]
              IN Result(removeFromPocket(placed, from.type, from.color),
                        TRUE, Undefined)

\* The capture report with a promoted queen handed on as a queen.
CapturedAsQueen(c, from, to) ==
    LET piece == c.board[from.row][from.col]
        target == c.board[to.row][to.col]
    IN IF piece.type = PAWN /\ isEnPassantMove(c, from, to)
       THEN c.board[from.row][to.col]
       ELSE IF target.type = PROMOTED_QUEEN THEN Piece(QUEEN, piece.color)
       ELSE target

\* The piece movePiece reports as captured: the cell on `to` (a promoted
\* queen reported as a pawn of the MOVING piece's color), or the pawn taken
\* en passant.
\* movePiece reporting what stands on the target square, en passant or not.
CapturedOnTarget(c, from, to) ==
    LET piece == c.board[from.row][from.col]
        target == c.board[to.row][to.col]
    IN IF target.type = PROMOTED_QUEEN THEN Piece(PAWN, piece.color)
       ELSE target

CapturedBy(c, from, to) ==
    LET piece == c.board[from.row][from.col]
        target == c.board[to.row][to.col]
    IN IF piece.type = PAWN /\ isEnPassantMove(c, from, to)
       THEN c.board[from.row][to.col]
       ELSE IF target.type = PROMOTED_QUEEN THEN Piece(PAWN, piece.color)
       ELSE target

\* The board after movePiece's updates, in the code's order.
MovedBoard(c, from, to) ==
    LET piece == c.board[from.row][from.col]
        b0 == IF piece.type = PAWN /\ isEnPassantMove(c, from, to)
              THEN SetCell(c.board, from.row, to.col, Undefined)
              ELSE c.board
        b1 == SetCell(SetCell(b0, to.row, to.col, piece),
                      from.row, from.col, Undefined)
        b2 == IF piece.type = KING /\ isCastlingMove(c, from, to)
              THEN LET rookFromCol == IF to.col > from.col THEN 7 ELSE 0
                       rookToCol == IF to.col > from.col THEN 5 ELSE 3
                   IN SetCell(SetCell(b1, from.row, rookToCol,
                                      b1[from.row][rookFromCol]),
                              from.row, rookFromCol, Undefined)
              ELSE b1
    IN IF piece.type = PAWN /\ (to.row = 0 \/ to.row = 7)
       THEN SetCell(b2, to.row, to.col, Piece(PROMOTED_QUEEN, piece.color))
       ELSE b2

\* "Update castling rights" without the clause for a rook captured on its
\* home corner.
CastleRightsKeptOnCapture(c, from, to, captured) ==
    LET piece == c.board[from.row][from.col]
        kingMoved(color) == piece.type = KING /\ piece.color = color
        rookMoved(color, row, col) ==
            piece.type = ROOK /\ piece.color = color
            /\ from.row = row /\ from.col = col
    IN [c EXCEPT
          !.whiteCastleShort = c.whiteCastleShort
              /\ ~kingMoved(WHITE) /\ ~rookMoved(WHITE, 7, 7),
          !.whiteCastleLong = c.whiteCastleLong
              /\ ~kingMoved(WHITE) /\ ~rookMoved(WHITE, 7, 0),
          !.blackCastleShort = c.blackCastleShort
              /\ ~kingMoved(BLACK) /\ ~rookMoved(BLACK, 0, 7),
          !.blackCastleLong = c.blackCastleLong
              /\ ~kingMoved(BLACK) /\ ~rookMoved(BLACK, 0, 0)]

\* "Update castling rights" assigning each flag afresh from the move at hand
\* instead of only ever clearing it.
CastleRightsAssignedAfresh(c, from, to, captured) ==
    LET piece == c.board[from.row][from.col]
        kingMoved(color) == piece.type = KING /\ piece.color = color
        rookMoved(color, row, col) ==
            piece.type = ROOK /\ piece.color = color
            /\ from.row = row /\ from.col = col
        rookTaken(color, row, col) ==
            IsPiece(captured) /\ captured.type = ROOK /\ captured.color = color
            /\ to.row = row /\ to.col = col
    IN [c EXCEPT
          !.whiteCastleShort =
              ~kingMoved(WHITE) /\ ~rookMoved(WHITE, 7, 7) /\ ~rookTaken(WHITE, 7, 7),
          !.whiteCastleLong =
              ~kingMoved(WHITE) /\ ~rookMoved(WHITE, 7, 0) /\ ~rookTaken(WHITE, 7, 0),
          !.blackCastleShort =
              ~kingMoved(BLACK) /\ ~rookMoved(BLACK, 0, 7) /\ ~rookTaken(BLACK, 0, 7),
          !.blackCastleLong =
              ~kingMoved(BLACK) /\ ~rookMoved(BLACK, 0, 0) /\ ~rookTaken(BLACK, 0, 0)]

\* The four castling rights after movePiece's "Update castling rights".
CastleRightsAfter(c, from, to, captured) ==
    LET piece == c.board[from.row][from.col]
        kingMoved(color) == piece.type = KING /\ piece.color = color
        rookMoved(color, row, col) ==
            piece.type = ROOK /\ piece.color = color
            /\ from.row = row /\ from.col = col
        rookTaken(color, row, col) ==
            IsPiece(captured) /\ captured.type = ROOK /\ captured.color = color
            /\ to.row = row /\ to.col = col
    IN [c EXCEPT
          !.whiteCastleShort = c.whiteCastleShort
              /\ ~kingMoved(WHITE) /\ ~rookMoved(WHITE, 7, 7) /\ ~rookTaken(WHITE, 7, 7),
          !.whiteCastleLong = c.whiteCastleLong
              /\ ~kingMoved(WHITE) /\ ~rookMoved(WHITE, 7, 0) /\ ~rookTaken(WHITE, 7, 0),
          !.blackCastleShort = c.blackCastleShort
              /\ ~kingMoved(BLACK) /\ ~rookMoved(BLACK, 0, 7) /\ ~rookTaken(BLACK, 0, 7),
          !.blackCastleLong = c.blackCastleLong
              /\ ~kingMoved(BLACK) /\ ~rookMoved(BLACK, 0, 0) /\ ~rookTaken(BLACK, 0, 0)]

movePiece(c, from, to, premove) ==
    IF (IF premove THEN ~isLegalPremove(c, from, to) ELSE ~isLegalMove(c, from, to))
    THEN Result(c, FALSE, Undefined)
    ELSE LET piece == c.board[from.row][from.col]
             captured == CapturedBy(c, from, to)
             rights == CastleRightsAfter(c, from, to, captured)
         IN Result([rights EXCEPT
                       !.board = MovedBoard(c, from, to),
                       !.enPassantTarget =
                           IF piece.type = PAWN /\ Abs(to.row - from.row) = 2
                           THEN createPosition((from.row + to.row) \div 2, to.col)
                           ELSE NoPosition,
                       !.turn = IF premove THEN c.turn ELSE invertColor(c.turn)],
                   TRUE, captured)

\* Chess.move; shared/room.ts calls it under the name tryMove.
move(c, action, premove) ==
    IF action.to.loc = "pocket" THEN Result(c, FALSE, Undefined)
    ELSE IF action.from.loc = "pocket"
    THEN dropPiece(c, action.from, action.to, premove)
    ELSE movePiece(c, action.from, action.to, premove)

\* Chess.isLegal(move, premove): dispatch to the drop or board-move test.
isLegal(c, action, premove) ==
    IF action.to.loc = "pocket" THEN FALSE
    ELSE IF action.from.loc = "pocket"
    THEN (IF premove THEN isLegalPredrop(c, action.from, action.to)
          ELSE isLegalDrop(c, action.to, action.from.type, action.from.color))
    ELSE (IF premove THEN isLegalPremove(c, action.from, action.to)
          ELSE isLegalMove(c, action.from, action.to))

(***************************************************************************)
(* Match                                                                   *)
(***************************************************************************)
NoPlayer == "none"

defaultTime == 180000

Match(time, flipped, currentTime) ==
    [chess |-> reset,
     whitePlayer |-> NoPlayer,
     blackPlayer |-> NoPlayer,
     whiteTime |-> time,
     blackTime |-> time,
     premoves |-> <<>>,
     playerTimeSinceMove |-> time,
     lastMoveTime |-> currentTime,
     activeColor |-> WHITE,
     flipped |-> flipped]

getPlayer(match, color) ==
    IF color = WHITE THEN match.whitePlayer ELSE match.blackPlayer

getTeam(match, color) == IF (color = WHITE) = match.flipped THEN BLUE ELSE RED

\* updateTime taking the elapsed time off the clock as it stands, with the
\* timestamp left where it was.
MatchUpdateTimeCharging(match, currentTime) ==
    IF match.lastMoveTime = 0 THEN match
    ELSE LET elapsed == currentTime - match.lastMoveTime
         IN IF match.activeColor = WHITE
            THEN [match EXCEPT !.whiteTime = match.whiteTime - elapsed]
            ELSE [match EXCEPT !.blackTime = match.blackTime - elapsed]

\* updateTime taking the elapsed time off the clock as it stands and moving
\* the timestamp to the time of the call.
MatchUpdateTimeReanchored(match, currentTime) ==
    IF match.lastMoveTime = 0 THEN match
    ELSE LET elapsed == currentTime - match.lastMoveTime
         IN IF match.activeColor = WHITE
            THEN [match EXCEPT !.whiteTime = match.whiteTime - elapsed,
                               !.lastMoveTime = currentTime]
            ELSE [match EXCEPT !.blackTime = match.blackTime - elapsed,
                               !.lastMoveTime = currentTime]

\* Match.updateTime: a lastMoveTime of 0 is falsy and ends the call.
MatchUpdateTime(match, currentTime) ==
    IF match.lastMoveTime = 0 THEN match
    ELSE LET elapsed == currentTime - match.lastMoveTime
         IN IF match.activeColor = WHITE
            THEN [match EXCEPT !.whiteTime = match.playerTimeSinceMove - elapsed]
            ELSE [match EXCEPT !.blackTime = match.playerTimeSinceMove - elapsed]

\* switchTurn without the new lastMoveTime.
\* switchTurn without the updateTime call that charges the color that moved.
switchTurnWithoutCharge(match, currentTime) ==
    LET active == match.chess.turn
    IN [match EXCEPT
           !.activeColor = active,
           !.playerTimeSinceMove =
               IF active = WHITE THEN match.whiteTime ELSE match.blackTime,
           !.lastMoveTime = currentTime]

switchTurnKeepingStamp(match, currentTime) ==
    LET updated == MatchUpdateTime(match, currentTime)
        active == updated.chess.turn
    IN [updated EXCEPT
           !.activeColor = active,
           !.playerTimeSinceMove =
               IF active = WHITE THEN updated.whiteTime ELSE updated.blackTime]

switchTurn(match, currentTime) ==
    LET updated == MatchUpdateTime(match, currentTime)
        active == updated.chess.turn
    IN [updated EXCEPT
           !.activeColor = active,
           !.playerTimeSinceMove =
               IF active = WHITE THEN updated.whiteTime ELSE updated.blackTime,
           !.lastMoveTime = currentTime]

(***************************************************************************)
(* Game                                                                    *)
(***************************************************************************)
Indices(ms) == DOMAIN ms

\* Credits the reported capture to every match of the list, the acting one
\* included: in its own color where flipped differs from the acting
\* match's, in the inverted color where it is equal.
moveResultEffects(ms, matchID, result) ==
    IF ~IsPiece(result.captured) THEN ms
    ELSE [index \in Indices(ms) |->
            LET shouldInvert == ms[index].flipped = ms[matchID].flipped
                color == IF shouldInvert THEN invertColor(result.captured.color)
                         ELSE result.captured.color
            IN [ms[index] EXCEPT
                   !.chess = addToPocket(ms[index].chess,
                                         Piece(result.captured.type, color))]]

\* The attempt on the head of the premove queue made under relaxed legality.
PremoveResultRelaxed(ms, matchIndex) ==
    move(ms[matchIndex].chess, Head(ms[matchIndex].premoves), TRUE)

\* The MoveResult of the strict attempt on the head of the premove queue.
\* The operations of Game that take a match index.
GameOperations ==
    {"tryAddMove", "tryAddPremove", "getPremoves", "clearPremoves",
     "getChessPremoved", "tryExecutePremoves"}

\* Whether the call ends in a TypeError: tryApplyMove and getPremoves test
\* the index first; getChessPremoved (and tryAddPremove through it),
\* clearPremoves and tryExecutePremoves read a field of
\* this.matches[matchIndex], which is undefined outside the array.
RaisesTypeError(ms, matchIndex, operation) ==
    /\ matchIndex \notin Indices(ms)
    /\ operation \in {"tryAddPremove", "getChessPremoved", "clearPremoves",
                      "tryExecutePremoves"}

PremoveResult(ms, matchIndex) ==
    move(ms[matchIndex].chess, Head(ms[matchIndex].premoves), FALSE)

\* tryExecutePremoves taking only the refused head off the queue.
tryExecutePremovesDroppingHead(ms, matchIndex, currentTime) ==
    IF Len(ms[matchIndex].premoves) = 0 THEN ms
    ELSE LET result == PremoveResult(ms, matchIndex)
             moved == [ms EXCEPT ![matchIndex].chess = result.chess]
             shifted == [moved EXCEPT
                            ![matchIndex].premoves = Tail(ms[matchIndex].premoves)]
         IN IF result.success
            THEN LET credited == moveResultEffects(shifted, matchIndex, result)
                 IN [credited EXCEPT
                        ![matchIndex] = switchTurn(credited[matchIndex], currentTime)]
            ELSE shifted

tryExecutePremoves(ms, matchIndex, currentTime) ==
    IF Len(ms[matchIndex].premoves) = 0 THEN ms
    ELSE LET result == PremoveResult(ms, matchIndex)
             moved == [ms EXCEPT ![matchIndex].chess = result.chess]
         IN IF result.success
            THEN LET shifted == [moved EXCEPT
                        ![matchIndex].premoves = Tail(ms[matchIndex].premoves)]
                     credited == moveResultEffects(shifted, matchIndex, result)
                 IN [credited EXCEPT
                        ![matchIndex] = switchTurn(credited[matchIndex], currentTime)]
            ELSE [moved EXCEPT ![matchIndex].premoves = <<>>]

\* tryApplyMove from the MoveResult of the player's move up to and including
\* switchTurn, before the premove attempt.
AfterResult(ms, matchIndex, result, currentTime) ==
    LET moved == [ms EXCEPT ![matchIndex].chess = result.chess]
    IN IF result.success
       THEN LET credited == moveResultEffects(moved, matchIndex, result)
            IN [credited EXCEPT
                   ![matchIndex] = switchTurn(credited[matchIndex], currentTime)]
       ELSE moved

tryApplyMove(ms, matchIndex, action, currentTime) ==
    IF matchIndex \notin Indices(ms) THEN ms
    ELSE LET result == move(ms[matchIndex].chess, action, FALSE)
             mid == AfterResult(ms, matchIndex, result, currentTime)
         IN IF result.success THEN tryExecutePremoves(mid, matchIndex, currentTime)
            ELSE mid

RECURSIVE Replay(_, _)
\* Applies the moves in order under relaxed legality, results ignored.
Replay(c, moves) ==
    IF moves = <<>> THEN c
    ELSE Replay(move(c, Head(moves), TRUE).chess, Tail(moves))

getChessPremoved(ms, matchIndex) ==
    Replay(ms[matchIndex].chess, ms[matchIndex].premoves)

\* getChessPremoved run on the match's own Chess instead of a clone of it.
AfterGetChessPremovedInPlace(ms, matchIndex) ==
    [ms EXCEPT ![matchIndex].chess = getChessPremoved(ms, matchIndex)]

\* The matches a call of getChessPremoved leaves behind.  Chess.clone copies
\* the rows of the board, both pocket maps and the scalar fields; the replay
\* assigns cells, pocket entries and fields of the copy and writes into no
\* Piece or Position object, the only objects the copy shares with the
\* original.
AfterGetChessPremoved(ms, matchIndex) == ms

tryAddPremove(ms, matchIndex, action) ==
    LET real == AfterGetChessPremoved(ms, matchIndex)
    IN IF isLegal(getChessPremoved(ms, matchIndex), action, TRUE)
       THEN [real EXCEPT
                ![matchIndex].premoves = Append(real[matchIndex].premoves, action)]
       ELSE real

GameUpdateTime(ms, currentTime) ==
    [index \in Indices(ms) |-> MatchUpdateTime(ms[index], currentTime)]

Infinity == 999999999

NoTimeout == [team |-> "none", player |-> NoPlayer]

\* JavaScript truthiness of a number.
Truthy(n) == n # 0

\* checkTimeout's loop body naming, for each side, the team seated there
\* rather than the team facing it.
ScanMatchOwnTeam(match, acc) ==
    LET top == IF (IF match.flipped THEN Truthy(match.blackTime)
                   ELSE match.whiteTime < acc.minTime)
               THEN [minTime |-> IF match.flipped THEN match.blackTime
                                 ELSE match.whiteTime,
                     minSide |-> RED,
                     minPlayer |-> IF match.flipped THEN match.blackPlayer
                                   ELSE match.whitePlayer]
               ELSE acc
    IN IF (IF match.flipped THEN Truthy(match.whiteTime)
           ELSE match.blackTime < top.minTime)
       THEN [minTime |-> IF match.flipped THEN match.whiteTime ELSE match.blackTime,
             minSide |-> BLUE,
             minPlayer |-> IF match.flipped THEN match.whitePlayer
                           ELSE match.blackPlayer]
       ELSE top

\* One iteration of checkTimeout's loop.  `a ? b : c < d` parses as
\* `a ? b : (c < d)`: for the side named by flipped the test is the
\* truthiness of the clock itself.
ScanMatch(match, acc) ==
    LET top == IF (IF match.flipped THEN Truthy(match.blackTime)
                   ELSE match.whiteTime < acc.minTime)
               THEN [minTime |-> IF match.flipped THEN match.blackTime
                                 ELSE match.whiteTime,
                     minSide |-> BLUE,
                     minPlayer |-> IF match.flipped THEN match.blackPlayer
                                   ELSE match.whitePlayer]
               ELSE acc
    IN IF (IF match.flipped THEN Truthy(match.whiteTime)
           ELSE match.blackTime < top.minTime)
       THEN [minTime |-> IF match.flipped THEN match.whiteTime ELSE match.blackTime,
             minSide |-> RED,
             minPlayer |-> IF match.flipped THEN match.whitePlayer
                           ELSE match.blackPlayer]
       ELSE top

RECURSIVE ScanFrom(_, _, _)
ScanFrom(ms, index, acc) ==
    IF index \notin Indices(ms) THEN acc
    ELSE ScanFrom(ms, index + 1, ScanMatch(ms[index], acc))

\* checkTimeout with the sign of its final test turned: `minTime < 0` for
\* `minTime > 0`.
checkTimeoutSignTurned(ms) ==
    LET found == ScanFrom(ms, 0, [minTime |-> Infinity, minSide |-> "none",
                                  minPlayer |-> NoPlayer])
    IN IF found.minTime < 0 \/ found.minSide = "none" \/ found.minPlayer = NoPlayer
       THEN NoTimeout
       ELSE [team |-> found.minSide, player |-> found.minPlayer]

checkTimeout(ms) ==
    LET found == ScanFrom(ms, 0, [minTime |-> Infinity, minSide |-> "none",
                                  minPlayer |-> NoPlayer])
    IN IF found.minTime > 0 \/ found.minSide = "none" \/ found.minPlayer = NoPlayer
       THEN NoTimeout
       ELSE [team |-> found.minSide, player |-> found.minPlayer]

(***************************************************************************)
(* Room                                                                    *)
(***************************************************************************)
\* tryStartRoom's test passing over the seats nobody holds.
CanStartPassingEmptySeats(ms, ps) ==
    \A index \in Indices(ms) :
        /\ ms[index].whitePlayer # NoPlayer => ps[ms[index].whitePlayer] = READY
        /\ ms[index].blackPlayer # NoPlayer => ps[ms[index].blackPlayer] = READY

CanStart(ms, ps) ==
    \A index \in Indices(ms) :
        /\ ms[index].whitePlayer # NoPlayer
        /\ ms[index].blackPlayer # NoPlayer
        /\ ps[ms[index].whitePlayer] = READY
        /\ ps[ms[index].blackPlayer] = READY

\* The matches tryStartRoom leaves when it succeeds; premoves are not touched.
StartedMatches(ms, currentTime) ==
    [index \in Indices(ms) |->
        [ms[index] EXCEPT
            !.whiteTime = defaultTime,
            !.blackTime = defaultTime,
            !.playerTimeSinceMove = defaultTime,
            !.lastMoveTime = currentTime,
            !.activeColor = WHITE,
            !.chess = reset]]

\* endRoom's loop over the players: the disconnected are removed (map and
\* seats), every other player becomes NOT_READY.
Remaining(ps) == {id \in DOMAIN ps : ps[id] # "disconnected"}

\* endRoom's loop leaving the status of the players who stay as it is.
EndedPlayersKeepingReady(ps) == [id \in Remaining(ps) |-> ps[id]]

EndedPlayers(ps) == [id \in Remaining(ps) |-> NOT_READY]

EndedMatches(ms, ps) ==
    [index \in Indices(ms) |->
        [ms[index] EXCEPT
            !.whitePlayer = IF @ \in Remaining(ps) THEN @ ELSE NoPlayer,
            !.blackPlayer = IF @ \in Remaining(ps) THEN @ ELSE NoPlayer]]

(***************************************************************************)
(* Bounds and inputs                                                       *)
(***************************************************************************)
MaxPremoves == 2
MaxDeserialize == 2
StartTime == 1
TickMs == 100000
MaxTicks == 2

\* Room's constructor seats two matches (unflipped, flipped); the third,
\* unflipped, is the board its commented-out line adds.
MatchCounts == {2, 3}

Sq(row, col) == createPosition(row, col)

\* The moves requested on the first board.  White: the e-pawn goes e3, e4,
\* e5, takes d5 en passant, takes c7, takes the queen on d8 and promotes
\* with check; the bishop goes to b5.  Black: a knight that shuttles b8-c6
\* and may take on e5, the double push d7-d5, and the king taking on d8.
MainLine ==
    { Move(Sq(6, 4), Sq(5, 4)), Move(Sq(5, 4), Sq(4, 4)), Move(Sq(4, 4), Sq(3, 4)),
      Move(Sq(3, 4), Sq(2, 3)), Move(Sq(2, 3), Sq(1, 2)), Move(Sq(1, 2), Sq(0, 3)),
      Move(Sq(7, 5), Sq(3, 1)),
      Move(Sq(0, 1), Sq(2, 2)), Move(Sq(2, 2), Sq(0, 1)), Move(Sq(2, 2), Sq(3, 4)),
      Move(Sq(1, 3), Sq(3, 3)), Move(Sq(0, 4), Sq(0, 3)) }

\* The moves requested while legality is studied.  White: the e-pawn line of
\* above, the knight to f3, the bishop to b5, castling short.  Black: the
\* knight shuttle, the double push d7-d5, the king taking on d8.
ChessLine ==
    { Move(Sq(6, 4), Sq(5, 4)), Move(Sq(5, 4), Sq(4, 4)), Move(Sq(4, 4), Sq(3, 4)),
      Move(Sq(3, 4), Sq(2, 3)), Move(Sq(2, 3), Sq(1, 2)), Move(Sq(1, 2), Sq(0, 3)),
      Move(Sq(7, 6), Sq(5, 5)), Move(Sq(7, 5), Sq(3, 1)), Move(Sq(7, 4), Sq(7, 6)),
      Move(Sq(0, 1), Sq(2, 2)), Move(Sq(2, 2), Sq(0, 1)),
      Move(Sq(1, 3), Sq(3, 3)), Move(Sq(0, 4), Sq(0, 3)) }

\* The moves requested of White's king rook: to g1 and back home.
RookLine == { Move(Sq(7, 7), Sq(7, 6)), Move(Sq(7, 6), Sq(7, 7)) }

\* The move requested on every other board: a white pawn drop.
SideLine == { Move(PocketPosition(WHITE, PAWN), Sq(4, 0)) }

MoveInputs(matchIndex) == IF matchIndex = 0 THEN MainLine ELSE SideLine

\* The premoves requested (first board only): Black's king to d8, a black
\* pawn dropped on h6.
PremoveInputs(matchIndex) ==
    IF matchIndex = 0
    THEN { Move(Sq(0, 4), Sq(0, 3)), Move(PocketPosition(BLACK, PAWN), Sq(2, 7)) }
    ELSE {}

\* The moves requested while the clocks are studied: one pawn push a side.
ClockLine == { Move(Sq(6, 4), Sq(5, 4)), Move(Sq(1, 0), Sq(2, 0)) }

PlayerIds == <<"p1", "p2", "p3", "p4", "p5", "p6">>

SeatId(index, color) == PlayerIds[index * 2 + (1 - color) + 1]

(***************************************************************************)
(* The state machine                                                       *)
(***************************************************************************)
NoMove == Move(NoPosition, NoPosition)

Idle(op) ==
    [op |-> op, matchIndex |-> -1, move |-> NoMove, success |-> FALSE,
     captured |-> Undefined, taken |-> Undefined,
     attempted |-> FALSE, fired |-> FALSE,
     firedCaptured |-> Undefined, firedTaken |-> Undefined,
     timeout |-> NoTimeout]

\* The cell a board move removes from the board: what stands on `to`, or the
\* pawn beside the origin for an en-passant capture.
Taken(c, action) ==
    IF action.from.loc # "board" THEN Undefined
    ELSE IF c.board[action.from.row][action.from.col].type = PAWN
            /\ isEnPassantMove(c, action.from, action.to)
    THEN c.board[action.from.row][action.to.col]
    ELSE c.board[action.to.row][action.to.col]

\* new Room(code), then every seat taken by a player of its own (join-room,
\* join-board): the lobby before anyone is ready.
Init ==
    /\ now = StartTime
    /\ \E n \in MatchCounts :
          matches = [index \in 0 .. (n - 1) |->
                        [Match(defaultTime, index % 2 = 1, StartTime) EXCEPT
                            !.whitePlayer = SeatId(index, WHITE),
                            !.blackPlayer = SeatId(index, BLACK)]]
    /\ players = [id \in {SeatId(index, color) :
                            index \in DOMAIN matches, color \in Colors} |-> NOT_READY]
    /\ status = LOBBY
    /\ syncs = 0
    /\ last = Idle("init")

\* Room.tryStartRoom(currentTime) as an action on (matches, status).
tryStartRoom(currentTime) ==
    IF status = LOBBY /\ CanStart(matches, players')
    THEN /\ status' = PLAYING
         /\ matches' = StartedMatches(matches, currentTime)
    ELSE UNCHANGED <<matches, status>>

\* The toggle-ready handler.
ToggleReady(id) ==
    /\ status # PLAYING
    /\ id \in DOMAIN players
    /\ players' = [players EXCEPT
                      ![id] = IF players[id] = READY THEN NOT_READY ELSE READY]
    /\ tryStartRoom(now)
    /\ last' = Idle("toggle-ready")
    /\ UNCHANGED <<now, syncs>>

\* What a successful tryApplyMove did: the player's move and, when the queue
\* was not empty, the attempt on its head.
Applied(matchIndex, action) ==
    LET chess == matches[matchIndex].chess
        result == move(chess, action, FALSE)
        mid == AfterResult(matches, matchIndex, result, now)
        attempted == Len(mid[matchIndex].premoves) > 0
        fired == attempted /\ PremoveResult(mid, matchIndex).success
    IN [Idle("move") EXCEPT
           !.matchIndex = matchIndex,
           !.move = action,
           !.success = TRUE,
           !.captured = result.captured,
           !.taken = Taken(chess, action),
           !.attempted = attempted,
           !.fired = fired,
           !.firedCaptured = IF fired THEN PremoveResult(mid, matchIndex).captured
                             ELSE Undefined,
           !.firedTaken = IF fired
                          THEN Taken(mid[matchIndex].chess,
                                     Head(mid[matchIndex].premoves))
                          ELSE Undefined]

\* Game.tryAddMove(matchIndex, move, false, now) while the room is playing.
ApplyMove(matchIndex, action) ==
    /\ status = PLAYING
    /\ matches' = tryApplyMove(matches, matchIndex, action, now)
    /\ last' = IF move(matches[matchIndex].chess, action, FALSE).success
               THEN Applied(matchIndex, action)
               ELSE Idle("move-rejected")
    /\ UNCHANGED <<players, status, now, syncs>>

\* Game.tryAddMove(matchIndex, move, true) while the room is playing.
AddPremove(matchIndex, action) ==
    /\ status = PLAYING
    /\ Len(matches[matchIndex].premoves) < MaxPremoves
    /\ matches' = tryAddPremove(matches, matchIndex, action)
    /\ last' = IF isLegal(getChessPremoved(matches, matchIndex), action, TRUE)
               THEN Idle("premove")
               ELSE Idle("premove-rejected")
    /\ UNCHANGED <<players, status, now, syncs>>

\* The game as a joining client holds it: Room.deserialize of the state the
\* server sent (joined-room), every board through Chess.deserialize.
Deserialize ==
    /\ status = PLAYING
    /\ syncs < MaxDeserialize
    /\ syncs' = syncs + 1
    /\ matches' = [index \in DOMAIN matches |->
                      [matches[index] EXCEPT !.chess = deserialize(@)]]
    /\ last' = Idle("deserialize")
    /\ UNCHANGED <<players, status, now>>

\* Time passes.
Tick ==
    /\ now + TickMs <= StartTime + MaxTicks * TickMs
    /\ now' = now + TickMs
    /\ last' = Idle("tick")
    /\ UNCHANGED <<matches, players, status, syncs>>

\* One run of the server's timeoutCheckInterval callback for the room.
Poll ==
    /\ status = PLAYING
    /\ LET updated == GameUpdateTime(matches, now)
           timeout == checkTimeout(updated)
       IN /\ last' = [Idle("poll") EXCEPT !.timeout = timeout]
          /\ IF timeout # NoTimeout
             THEN /\ status' = LOBBY
                  /\ players' = EndedPlayers(players)
                  /\ matches' = EndedMatches(updated, players)
             ELSE /\ matches' = updated
                  /\ UNCHANGED <<players, status>>
    /\ UNCHANGED <<now, syncs>>

PlayerMove == \E matchIndex \in DOMAIN matches :
                 \E action \in MoveInputs(matchIndex) : ApplyMove(matchIndex, action)

PlayerPremove == \E matchIndex \in DOMAIN matches :
                    \E action \in PremoveInputs(matchIndex) :
                       AddPremove(matchIndex, action)

Ready == \E id \in DOMAIN players : ToggleReady(id)

Next == Ready \/ PlayerMove \/ PlayerPremove \/ Deserialize

Spec == Init /\ [][Next]_vars

\* The lobby of above once everyone but the first board's White is ready.
InitClock ==
    /\ now = StartTime
    /\ \E n \in MatchCounts :
          matches = [index \in 0 .. (n - 1) |->
                        [Match(defaultTime, index % 2 = 1, StartTime) EXCEPT
                            !.whitePlayer = SeatId(index, WHITE),
                            !.blackPlayer = SeatId(index, BLACK)]]
    /\ players = [id \in {SeatId(index, color) :
                            index \in DOMAIN matches, color \in Colors} |->
                     IF id = SeatId(0, WHITE) THEN NOT_READY ELSE READY]
    /\ status = LOBBY
    /\ syncs = 0
    /\ last = Idle("init")

ReadyClock == ToggleReady(SeatId(0, WHITE))

ClockMove == \E matchIndex \in DOMAIN matches :
                \E action \in ClockLine : ApplyMove(matchIndex, action)

NextClock == ReadyClock \/ ClockMove \/ Tick \/ Poll

SpecClock == InitClock /\ [][NextClock]_vars

ChessMove == \E action \in ChessLine : ApplyMove(0, action)

NextChess == Ready \/ ChessMove \/ Deserialize

\* The lobby of a room as Room's constructor builds it: two matches.
InitChess == Init /\ DOMAIN matches = 0 .. 1

SpecChess == InitChess /\ [][NextChess]_vars

RookMove == \E action \in RookLine : ApplyMove(0, action)

NextCastle == Ready \/ ChessMove \/ RookMove \/ Deserialize

SpecCastle == InitChess /\ [][NextCastle]_vars

\* The moves requested of White's pawn on c7: it takes the knight on b8 and
\* promotes, and the new queen takes the rook on a8; Black's h-pawn may
\* step to h6 meanwhile.
CornerLine ==
    { Move(Sq(1, 2), Sq(0, 1)), Move(Sq(0, 1), Sq(0, 0)), Move(Sq(1, 7), Sq(2, 7)) }

CornerMove == \E action \in CornerLine : ApplyMove(0, action)

NextCorner == Ready \/ ChessMove \/ RookMove \/ CornerMove \/ Deserialize

SpecCorner == InitChess /\ [][NextCorner]_vars

\* The moves requested while drops are studied.  White: the e-pawn goes e3,
\* e4, e5 and takes d5 en passant, then a pawn is dropped on a4.  Black: the
\* knight shuttle b8-c6 and the double pushes d7-d5 and h7-h5.
DropLine ==
    { Move(Sq(6, 4), Sq(5, 4)), Move(Sq(5, 4), Sq(4, 4)), Move(Sq(4, 4), Sq(3, 4)),
      Move(Sq(3, 4), Sq(2, 3)), Move(PocketPosition(WHITE, PAWN), Sq(4, 0)),
      Move(Sq(0, 1), Sq(2, 2)), Move(Sq(2, 2), Sq(0, 1)),
      Move(Sq(1, 3), Sq(3, 3)), Move(Sq(1, 7), Sq(3, 7)) }

DropMove == \E action \in DropLine : ApplyMove(0, action)

NextDrop == Ready \/ DropMove \/ Deserialize

SpecDrop == InitChess /\ [][NextDrop]_vars

\* The moves requested while checkmate is studied.  First board: White's f3,
\* g4 and a3, Black's e6 and the queen to h4.  Second board: White's e3 and
\* e4, Black's d7-d5 and the pawn taking on e4, which hands White of the
\* first board a pawn.
MateLine(matchIndex) ==
    IF matchIndex = 0
    THEN { Move(Sq(6, 5), Sq(5, 5)), Move(Sq(6, 6), Sq(4, 6)), Move(Sq(6, 0), Sq(5, 0)),
           Move(Sq(1, 4), Sq(2, 4)), Move(Sq(0, 3), Sq(4, 7)) }
    ELSE { Move(Sq(6, 4), Sq(5, 4)), Move(Sq(5, 4), Sq(4, 4)),
           Move(Sq(1, 3), Sq(3, 3)), Move(Sq(3, 3), Sq(4, 4)) }

MateMove == \E matchIndex \in DOMAIN matches :
               \E action \in MateLine(matchIndex) : ApplyMove(matchIndex, action)

NextMate == Ready \/ MateMove \/ Deserialize

SpecMate == InitChess /\ [][NextMate]_vars

\* The polling the server's setInterval guarantees, and the passing of time.
SpecClockFair == SpecClock /\ WF_vars(Poll) /\ WF_vars(Tick)

\* The premove requested while the clocks are studied: Black's pawn push on
\* the first board.
ClockPremove == AddPremove(0, Move(Sq(1, 0), Sq(2, 0)))

\* The moves requested with it: those of ClockLine on the first board.
TurnMove == \E action \in ClockLine : ApplyMove(0, action)

\* A room of two boards with the clocks about to start.
InitTurn == InitClock /\ DOMAIN matches = 0 .. 1

NextTurn == ReadyClock \/ TurnMove \/ ClockPremove \/ Tick \/ Poll

\* Moves and premoves on the first of two boards while time passes and the
\* clocks are polled.
SpecTurn == InitTurn /\ [][NextTurn]_vars

\* The join-board handler without the test of the facing team's seats.
JoinBoardUnchecked(id, boardID, color) ==
    /\ id \in DOMAIN players
    /\ IF status # LOBBY
       THEN UNCHANGED matches
       ELSE matches' = [matches EXCEPT ![boardID] =
                           IF color = WHITE THEN [@ EXCEPT !.whitePlayer = id]
                           ELSE [@ EXCEPT !.blackPlayer = id]]
    /\ last' = Idle("join-board")
    /\ UNCHANGED <<players, status, now, syncs>>

\* The join-board handler for the player `id`: refused outside the lobby and
\* when the player holds a seat of the team facing the one asked for.
JoinBoard(id, boardID, color) ==
    /\ id \in DOMAIN players
    /\ LET oppTeam == IF getTeam(matches[boardID], color) = RED THEN BLUE ELSE RED
           facing == \E index \in DOMAIN matches : \E c \in Colors :
                        /\ getTeam(matches[index], c) = oppTeam
                        /\ getPlayer(matches[index], c) = id
       IN IF status # LOBBY \/ facing
          THEN UNCHANGED matches
          ELSE matches' = [matches EXCEPT ![boardID] =
                              IF color = WHITE THEN [@ EXCEPT !.whitePlayer = id]
                              ELSE [@ EXCEPT !.blackPlayer = id]]
    /\ last' = Idle("join-board")
    /\ UNCHANGED <<players, status, now, syncs>>

\* The leave-board handler.
LeaveBoard(boardID, color) ==
    /\ IF status # LOBBY
       THEN UNCHANGED matches
       ELSE matches' = [matches EXCEPT ![boardID] =
                           IF color = WHITE THEN [@ EXCEPT !.whitePlayer = NoPlayer]
                           ELSE [@ EXCEPT !.blackPlayer = NoPlayer]]
    /\ last' = Idle("leave-board")
    /\ UNCHANGED <<players, status, now, syncs>>

\* The resign-room handler for the player `id`: Room.endRoom when the room
\* is playing and the player holds a seat.
Resign(id) ==
    /\ id \in DOMAIN players
    /\ IF /\ status = PLAYING
          /\ \E index \in DOMAIN matches : \E c \in Colors :
                getPlayer(matches[index], c) = id
       THEN /\ status' = LOBBY
            /\ players' = EndedPlayers(players)
            /\ matches' = EndedMatches(matches, players)
       ELSE UNCHANGED <<matches, players, status>>
    /\ last' = Idle("resign-room")
    /\ UNCHANGED <<now, syncs>>

\* The disconnect handler (handlePlayerLeave) for the player `id`: out of the
\* room and its seats in the lobby, marked DISCONNECTED during a game.
Disconnect(id) ==
    /\ id \in DOMAIN players
    /\ IF status = LOBBY
       THEN /\ players' = [p \in DOMAIN players \ {id} |-> players[p]]
            /\ matches' = [index \in DOMAIN matches |->
                  [matches[index] EXCEPT
                      !.whitePlayer = IF @ = id THEN NoPlayer ELSE @,
                      !.blackPlayer = IF @ = id THEN NoPlayer ELSE @]]
       ELSE /\ players' = [players EXCEPT ![id] = "disconnected"]
            /\ UNCHANGED matches
    /\ last' = Idle("disconnect")
    /\ UNCHANGED <<status, now, syncs>>

\* The seats asked for in the lobby: each player's own, and by the first
\* board's White player also Black's seat on the second board (same team)
\* and Black's seat on the first (the other team).
SeatRequests ==
    {<<SeatId(index, color), index, color>> : index \in 0 .. 1, color \in Colors}
    \cup {<<SeatId(0, WHITE), 1, BLACK>>, <<SeatId(0, WHITE), 0, BLACK>>}

Join == \E request \in SeatRequests : JoinBoard(request[1], request[2], request[3])

Leave == \E index \in DOMAIN matches : \E color \in Colors : LeaveBoard(index, color)

ResignRoom == \E id \in DOMAIN players : Resign(id)

\* The player who may drop out: Black of the second board.
Leaver == SeatId(1, BLACK)

PlayerLeave == Disconnect(Leaver)

NextLobby == Ready \/ Join \/ Leave \/ ResignRoom \/ PlayerLeave
                \/ TurnMove \/ ClockPremove

\* Seats, readiness, games that end and start again, on two boards.
SpecLobby == InitChess /\ [][NextLobby]_vars

\* The test of the move-board handler: the room is playing, the requesting
\* player holds the seat `color` of the board, and the move is strictly
\* legal on it.
MoveBoardAccepts(id, boardID, color, action) ==
    /\ status = PLAYING
    /\ getPlayer(matches[boardID], color) = id
    /\ isLegal(matches[boardID].chess, action, FALSE)

\* The move-board handler for a request of the player `id`, who names the
\* seat `color`; a request that fails the test is dropped.  The clock update
\* ahead of the move is the one switchTurn repeats at the same time.
MoveBoard(id, boardID, color, action) ==
    /\ MoveBoardAccepts(id, boardID, color, action)
    /\ ApplyMove(boardID, action)

\* Requests for the moves of ClockLine by every player, for either seat of
\* either board.
SeatMove ==
    \E id \in DOMAIN players : \E boardID \in DOMAIN matches :
        \E color \in Colors : \E action \in ClockLine :
            MoveBoard(id, boardID, color, action)

NextSeat == Ready \/ Join \/ Leave \/ SeatMove

\* Seats taken and left in the lobby, then move requests by every player on
\* two boards.
SpecSeat == InitChess /\ [][NextSeat]_vars

\* A call of a Game operation with the match index `matchIndex`, in or out
\* of range; the moves passed are a7-a6 as a premove and e2-e3 as a move.
GameCall(operation, matchIndex) ==
    /\ status = PLAYING
    /\ IF RaisesTypeError(matches, matchIndex, operation)
       THEN /\ last' = [Idle("TypeError") EXCEPT !.matchIndex = matchIndex]
            /\ UNCHANGED matches
       ELSE /\ last' = [Idle(operation) EXCEPT !.matchIndex = matchIndex]
            /\ matches' =
                  CASE operation = "tryAddMove" ->
                          tryApplyMove(matches, matchIndex,
                                       Move(Sq(6, 4), Sq(5, 4)), now)
                    [] operation = "tryAddPremove" ->
                          IF Len(matches[matchIndex].premoves) < MaxPremoves
                          THEN tryAddPremove(matches, matchIndex,
                                             Move(Sq(1, 0), Sq(2, 0)))
                          ELSE matches
                    [] operation = "clearPremoves" ->
                          [matches EXCEPT ![matchIndex].premoves = << >>]
                    [] operation = "tryExecutePremoves" ->
                          tryExecutePremoves(matches, matchIndex, now)
                    [] OTHER -> matches
    /\ UNCHANGED <<players, status, now, syncs>>

\* Calls with every index from one below the first to one past the last.
IndexedCall ==
    \E operation \in GameOperations :
        \E matchIndex \in -1 .. Cardinality(DOMAIN matches) :
            GameCall(operation, matchIndex)

NextIndex == ReadyClock \/ TurnMove \/ ClockPremove \/ IndexedCall

\* Game operations called with indices in and out of range, on two or three
\* boards.
SpecIndex == InitClock /\ [][NextIndex]_vars

(***************************************************************************)
(* Properties                                                              *)
(***************************************************************************)
Squares == {createPosition(row, col) : row \in Rows, col \in Rows}

Sides == {SHORT, LONG}

\* The two pockets of a match.
Pockets(match) == <<match.chess.whitePocket, match.chess.blackPocket>>

\* A pocket with one more unit of `type`.
PocketPlus(pocket, type) ==
    [t \in (DOMAIN pocket) \cup {type} |->
        IF t = type THEN PocketCount(pocket, type) + 1 ELSE pocket[t]]

\* The unit a captured cell stands for: a promoted queen counts as a pawn.
CapturedUnit(cell) ==
    Piece(IF cell.type = PROMOTED_QUEEN THEN PAWN ELSE cell.type, cell.color)

\* The pockets of a match after one unit has been credited to them.
PocketsPlus(match, unit) ==
    IF unit.color = WHITE
    THEN <<PocketPlus(match.chess.whitePocket, unit.type), match.chess.blackPocket>>
    ELSE <<match.chess.whitePocket, PocketPlus(match.chess.blackPocket, unit.type)>>

\* This step is a successful strict board move that took a piece off the
\* board, with no premove fired behind it.
CaptureStep == last'.op = "move" /\ IsPiece(last'.taken) /\ ~last'.fired

\* This step is a successful strict drop, with no premove fired behind it.
DropStep == last'.op = "move" /\ last'.move.from.loc = "pocket" /\ ~last'.fired

\* This step is a successful strict move after which the head of the
\* premove queue was tried and found invalid.
FailedPremoveStep == last'.op = "move" /\ last'.attempted /\ ~last'.fired

\* Every clock of every match.
Clocks(ms) == {ms[index].whiteTime : index \in DOMAIN ms}
                  \cup {ms[index].blackTime : index \in DOMAIN ms}

ClockOf(match, color) == IF color = WHITE THEN match.whiteTime ELSE match.blackTime

\* The seats (match, color) a player occupies.
SeatsOf(ms, id) ==
    {seat \in (DOMAIN ms) \X Colors : getPlayer(ms[seat[1]], seat[2]) = id}

\* The seats whose clock is the minimum over all clocks.
MinimumSeats(ms) ==
    {seat \in (DOMAIN ms) \X Colors :
        \A clock \in Clocks(ms) : ClockOf(ms[seat[1]], seat[2]) <= clock}

\* The squares holding a piece of the side to move: the only origins
\* isLegalMove does not turn down at once.
MoverSquares(c) ==
    {sq \in Squares : IsPiece(c.board[sq.row][sq.col])
                      /\ c.board[sq.row][sq.col].color = c.turn}

\* C1: on every reachable board, for every square `from` holding a piece of
\* the side to move and every square `to`, whenever isLegalMove(from, to)
\* returns true the mover's own king is not in check in the state movePiece
\* leaves behind in strict mode.
C1_LegalMoveLeavesOwnKingSafe ==
    \A index \in DOMAIN matches :
        LET c == matches[index].chess
        IN \A from \in MoverSquares(c), to \in Squares :
              isLegalMove(c, from, to) =>
                  ~isInCheck(movePiece(c, from, to, FALSE).chess, c.turn)

\* C1 witness: White has just castled short on the first board.
C1_WhiteHasCastled ==
    /\ last.op = "move"
    /\ last.matchIndex = 0
    /\ last.move = Move(Sq(7, 4), Sq(7, 6))
    /\ matches[0].chess.board[7][6] = Piece(KING, WHITE)
    /\ matches[0].chess.board[7][5] = Piece(ROOK, WHITE)

\* C2: a successful strict move on match A that captures a piece credits
\* exactly one unit of the captured kind (a promoted queen as a pawn) to the
\* pocket of the captured piece's color on every other match whose flipped
\* differs from A's, and nothing else to those matches.
C2_CaptureCreditsOpposingBoards ==
    [][CaptureStep =>
          \A index \in DOMAIN matches :
              (index # last'.matchIndex
               /\ matches[index].flipped # matches[last'.matchIndex].flipped) =>
                  Pockets(matches'[index])
                      = PocketsPlus(matches[index], CapturedUnit(last'.taken))]_vars

\* C2, the part that holds: the same for every capture of a piece other
\* than a promoted queen.
C2_OrdinaryCaptureCreditsOpposingBoards ==
    [][(CaptureStep /\ last'.taken.type # PROMOTED_QUEEN) =>
          \A index \in DOMAIN matches :
              (index # last'.matchIndex
               /\ matches[index].flipped # matches[last'.matchIndex].flipped) =>
                  Pockets(matches'[index])
                      = PocketsPlus(matches[index], CapturedUnit(last'.taken))]_vars

\* C3: a capture on match A leaves both pockets of A, and of every match
\* sharing A's flipped value, exactly as they were.
C3_CaptureLeavesOwnSidePockets ==
    [][CaptureStep =>
          \A index \in DOMAIN matches :
              (matches[index].flipped = matches[last'.matchIndex].flipped) =>
                  Pockets(matches'[index]) = Pockets(matches[index])]_vars

C5_FailedPremoveOnlyEmptiesQueue ==
    [][FailedPremoveStep =>
          matches' = [AfterResult(matches, last'.matchIndex,
                                  move(matches[last'.matchIndex].chess,
                                       last'.move, FALSE),
                                  now)
                         EXCEPT ![last'.matchIndex].premoves = <<>>]]_vars

\* The matches with every empty square, null or undefined, read as null.
EmptiesAlike(ms) ==
    [index \in DOMAIN ms |-> [ms[index] EXCEPT !.chess = deserialize(@)]]

\* C5, the part that holds: the same up to the kind of empty (null or
\* undefined) a square holds.
C5_FailedPremoveKeepsAllButEmptyKind ==
    [][FailedPremoveStep =>
          EmptiesAlike(matches')
              = EmptiesAlike([AfterResult(matches, last'.matchIndex,
                                          move(matches[last'.matchIndex].chess,
                                               last'.move, FALSE),
                                          now)
                                 EXCEPT ![last'.matchIndex].premoves = <<>>])]_vars

\* C6: a poll that finds some clock at or below zero reports the player of a
\* seat whose clock is the minimum over all clocks of all matches.
C6_TimeoutNamesMinimumClock ==
    (last.op = "poll" /\ \E clock \in Clocks(matches) : clock <= 0) =>
        \E seat \in MinimumSeats(matches) :
            last.timeout.player = getPlayer(matches[seat[1]], seat[2])

C8_NoTimeoutWhileAllClocksPositive ==
    (last.op = "poll" /\ \A clock \in Clocks(matches) : clock > 0) =>
        last.timeout = NoTimeout

\* C8 witness: a poll after time has passed, with a clock run down but
\* every clock still above zero, has reported nothing.
C8_PolledWithTimeLeft ==
    /\ last.op = "poll"
    /\ last.timeout = NoTimeout
    /\ \A clock \in Clocks(matches) : clock > 0
    /\ \E clock \in Clocks(matches) : clock < defaultTime

\* C9: while the server keeps polling, a playing room in which some clock
\* has reached zero or less eventually leaves PLAYING.
C9_TimeoutEndsTheRoom ==
    (status = PLAYING
     /\ \E clock \in Clocks(GameUpdateTime(matches, now)) : clock <= 0)
        ~> (status # PLAYING)

\* C10: while the game goes on (no reset), no castling right of any match
\* goes from false to true.
C10_CastlingRightsNeverReturn ==
    [][(status = PLAYING /\ status' = PLAYING) =>
          \A index \in DOMAIN matches : \A color \in Colors, side \in Sides :
              CastleRight(matches'[index].chess, color, side)
                  => CastleRight(matches[index].chess, color, side)]_vars

\* C10 witness: White's king rook has been to g1 and is home again beside
\* the unmoved king, the short right lost and the long one kept.
C10_RookCameHome ==
    /\ last.op = "move"
    /\ last.move = Move(Sq(7, 6), Sq(7, 7))
    /\ matches[0].chess.board[7][7] = Piece(ROOK, WHITE)
    /\ matches[0].chess.board[7][4] = Piece(KING, WHITE)
    /\ ~matches[0].chess.whiteCastleShort
    /\ matches[0].chess.whiteCastleLong

\* The home rank of a color.
HomeRow(color) == IF color = WHITE THEN 7 ELSE 0

\* The home corner of the rook a castling right is about.
RookHome(color, side) ==
    createPosition(HomeRow(color), IF side = SHORT THEN 7 ELSE 0)

\* The home square of a king: file e of the back rank.
KingHome(color) == createPosition(HomeRow(color), 4)

TargetAfter(c, action) ==
    IF /\ action.from.loc = "board"
       /\ IsPiece(c.board[action.from.row][action.from.col])
       /\ c.board[action.from.row][action.from.col].type = PAWN
       /\ Abs(action.to.row - action.from.row) = 2
    THEN createPosition((action.from.row + action.to.row) \div 2, action.from.col)
    ELSE NoPosition

\* C12: after every successful move or drop the en-passant target is set if
\* and only if the action was a board move of a pawn over two rows, and then
\* it is the square passed over; every other successful move or drop, the
\* very next one in particular, leaves the target empty.
C12_EnPassantTargetFollowsLastAction ==
    [][last'.op = "move"
       => LET index == last'.matchIndex
              first == move(matches[index].chess, last'.move, FALSE)
              mid == AfterResult(matches, index, first, now)
          IN matches'[index].chess.enPassantTarget =
                IF last'.fired
                THEN TargetAfter(mid[index].chess, Head(mid[index].premoves))
                ELSE TargetAfter(matches[index].chess, last'.move)]_vars

\* Black's h-pawn has just gone h7-h5 and the target is h6.
C12_TargetSetByDoublePush ==
    /\ last.op = "move" /\ last.move = Move(Sq(1, 7), Sq(3, 7))
    /\ matches[0].chess.enPassantTarget = createPosition(2, 7)

\* C13: a new or reset Board State has White to move, all four castling
\* rights, empty pockets and no en-passant target, and from it the double
\* push e2-e4 is a legal strict move that leaves the target on e3 and the
\* turn with Black.
C13_NewBoardAcceptsDoublePush ==
    \A index \in DOMAIN matches :
        LET c == matches[index].chess
            pushed == movePiece(c, Sq(6, 4), Sq(4, 4), FALSE)
        IN c = reset
           => /\ c.turn = WHITE
              /\ \A color \in Colors : \A side \in Sides : CastleRight(c, color, side)
              /\ c.whitePocket = EmptyPocket /\ c.blackPocket = EmptyPocket
              /\ c.enPassantTarget = NoPosition
              /\ isLegalMove(c, Sq(6, 4), Sq(4, 4))
              /\ pushed.success
              /\ pushed.chess.enPassantTarget = createPosition(5, 4)
              /\ pushed.chess.turn = BLACK

\* The pockets of every match, as (match, color) -> pocket.
AllPockets(ms) ==
    [seat \in (DOMAIN ms) \X Colors |-> getPocket(ms[seat[1]].chess, seat[2])]

\* This step's only capture took a promoted queen off the board.
PromotedQueenTaken ==
    /\ last'.op = "move"
    /\ \/ ~last'.fired /\ IsPiece(last'.taken)
          /\ last'.taken.type = PROMOTED_QUEEN
       \/ last'.fired /\ ~IsPiece(last'.taken)
          /\ IsPiece(last'.firedTaken) /\ last'.firedTaken.type = PROMOTED_QUEEN

\* C14: when a promoted queen is captured, every pocket that is credited
\* gains exactly one pawn; no pocket's queen count changes, and no pocket
\* ever holds an entry for the promoted queen.
C14_PromotedQueenCreditedAsPawn ==
    [][/\ \A seat \in DOMAIN AllPockets(matches') :
             PROMOTED_QUEEN \notin DOMAIN AllPockets(matches')[seat]
       /\ PromotedQueenTaken =>
             /\ \A seat \in DOMAIN AllPockets(matches) :
                   LET before == AllPockets(matches)[seat]
                       after == AllPockets(matches')[seat]
                   IN /\ after = before \/ after = PocketPlus(before, PAWN)
                      /\ PocketCount(after, QUEEN) = PocketCount(before, QUEEN)
             /\ \E seat \in DOMAIN AllPockets(matches) :
                   AllPockets(matches')[seat] # AllPockets(matches)[seat]]_vars

\* Black's king has just taken the promoted queen on d8 and a pocket of the
\* other board holds a pawn for it.
C14_PromotedQueenInPocketAsPawn ==
    /\ last.op = "move" /\ ~last.fired
    /\ IsPiece(last.taken) /\ last.taken.type = PROMOTED_QUEEN
    /\ \E color \in Colors :
          PocketCount(getPocket(matches[1].chess, color), PAWN) > 0

\* C15: a captured promoted queen is reported as a pawn of the captured
\* queen's own color, the color opposite to the capturing piece's.
C15_PromotedQueenReportedInOwnColor ==
    [][(CaptureStep /\ last'.taken.type = PROMOTED_QUEEN) =>
          last'.captured = Piece(PAWN, last'.taken.color)]_vars

\* The orders in which a pocket can yield the kinds it holds.
KindOrders(pocket) ==
    LET held == {t \in DOMAIN pocket : pocket[t] > 0}
    IN {order \in [1 .. Cardinality(held) -> held] :
           \A i, j \in DOMAIN order : order[i] = order[j] => i = j}

\* Some kind held by the side to move can be dropped on some square.
LegalDropExists(c) ==
    \E type \in DOMAIN getPocket(c, c.turn) : \E pos \in Squares :
        /\ PocketCount(getPocket(c, c.turn), type) > 0
        /\ isLegalDrop(c, pos, type, c.turn)

C17_DropLegalOnEmptySquare ==
    \A index \in DOMAIN matches : \A color \in Colors :
        LET c == matches[index].chess
        IN \A type \in DOMAIN getPocket(c, color) : \A pos \in Squares :
              isLegalDrop(c, pos, type, color)
              <=> /\ ~IsPiece(c.board[pos.row][pos.col])
                  /\ c.turn = color
                  /\ PocketCount(getPocket(c, color), type) > 0
                  /\ ~(type = PAWN /\ (pos.row = 0 \/ pos.row = 7))
                  /\ ~isInCheck([c EXCEPT !.board =
                                    SetCell(c.board, pos.row, pos.col,
                                            Piece(type, color))],
                                color)

\* The columns strictly between the king's and the rook's home squares.
ColumnsBetween(side) == IF side = SHORT THEN {5, 6} ELSE {1, 2, 3}

\* The columns the king starts on, crosses and lands on when castling.
ColumnsOfKing(side) == IF side = SHORT THEN {4, 5, 6} ELSE {4, 3, 2}

\* C18: a move of the king of the side to move by two squares along its row
\* is strictly legal exactly when the right of that side is set, king and
\* rook stand on their home squares, the mover is not in check, every square
\* strictly between king and rook is empty and none of the squares the king
\* starts on, crosses or lands on is attacked; so it is legal once the
\* squares between have been vacated by earlier moves.
C18_CastlingLegalIffConditionsHold ==
    \A index \in DOMAIN matches : \A side \in Sides :
        LET c == matches[index].chess
            color == c.turn
            enemy == invertColor(color)
        IN \A square \in KingSquares(c, color) :
              LET from == createPosition(square[1], square[2])
                  to == createPosition(from.row,
                                       IF side = SHORT THEN from.col + 2
                                       ELSE from.col - 2)
                  rook == c.board[RookHome(color, side).row][RookHome(color, side).col]
              IN to.col \in Rows
                 => (isLegalMove(c, from, to)
                     <=> /\ CastleRight(c, color, side)
                         /\ from = KingHome(color)
                         /\ rook = Piece(ROOK, color)
                         /\ ~isInCheck(c, color)
                         /\ \A col \in ColumnsBetween(side) :
                               ~IsPiece(c.board[from.row][col])
                         /\ \A col \in ColumnsOfKing(side) :
                               ~isSquareAttacked(c, createPosition(from.row, col),
                                                 enemy))

\* C19: relaxed legality accepts a move of a king by two squares along its
\* row only if the king stands on its home square and the castling right of
\* its color for that side is still set, for White and Black, short and
\* long alike.
C19_PremoveCastlingNeedsRight ==
    \A index \in DOMAIN matches : \A color \in Colors : \A side \in Sides :
        LET c == matches[index].chess
        IN \A square \in KingSquares(c, color) :
              LET from == createPosition(square[1], square[2])
                  to == createPosition(from.row,
                                       IF side = SHORT THEN from.col + 2
                                       ELSE from.col - 2)
              IN (to.col \in Rows /\ isLegalPremove(c, from, to))
                 => from = KingHome(color) /\ CastleRight(c, color, side)

\* Strict legality of a move or drop, as isLegalMove / isLegalDrop decide it.
StrictlyLegal(c, action) ==
    IF action.from.loc = "pocket"
    THEN isLegalDrop(c, action.to, action.from.type, action.from.color)
    ELSE isLegalMove(c, action.from, action.to)

\* C20: a queued premove changes the real Board State only by firing after
\* strict re-validation: queuing it leaves every board, pocket and turn as
\* it was, and whenever a premove fires, it satisfies strict legality in the
\* real state of that moment and the state it leaves is that of the strict
\* move.
C20_FiredPremoveWasStrictlyLegal ==
    [][/\ last'.op \in {"premove", "premove-rejected"} =>
             \A index \in DOMAIN matches :
                 matches'[index].chess = matches[index].chess
       /\ (last'.op = "move" /\ last'.fired) =>
             LET index == last'.matchIndex
                 first == move(matches[index].chess, last'.move, FALSE)
                 mid == AfterResult(matches, index, first, now)
                 head == Head(mid[index].premoves)
             IN /\ StrictlyLegal(mid[index].chess, head)
                /\ matches'[index].chess.board
                      = move(mid[index].chess, head, FALSE).chess.board
                /\ matches'[index].chess.turn = invertColor(mid[index].chess.turn)]_vars

\* A premove has just fired and taken a piece.
C20_PremoveFiredWithCapture ==
    /\ last.op = "move" /\ last.fired
    /\ IsPiece(last.firedTaken)

\* Every board move and every drop of a held kind that can be asked of a
\* Board State.
ActionsOn(c) ==
    {Move(from, to) : from \in {sq \in Squares : IsPiece(c.board[sq.row][sq.col])},
                      to \in Squares}
    \cup {Move(PocketPosition(color, type), to) :
             color \in Colors, type \in DOMAIN getPocket(c, WHITE)
                                         \cup DOMAIN getPocket(c, BLACK),
             to \in Squares}

\* C21: a move or a drop executed with premove = true never changes the
\* turn, whether it succeeds or fails.
C21_PremoveExecutionKeepsTurn ==
    \A index \in DOMAIN matches :
        LET c == matches[index].chess
        IN \A action \in ActionsOn(c) : move(c, action, TRUE).chess.turn = c.turn

\* On the first board a drop and a board move both succeed under premove
\* for the side that is not to move.
C21_PremoveExecutionsSucceed ==
    LET c == matches[0].chess
    IN /\ \E action \in ActionsOn(c) :
             /\ action.from.loc = "pocket" /\ action.from.color # c.turn
             /\ move(c, action, TRUE).success
       /\ \E action \in ActionsOn(c) :
             /\ action.from.loc = "board"
             /\ c.board[action.from.row][action.from.col].color # c.turn
             /\ move(c, action, TRUE).success

RECURSIVE AppliedUpTo(_, _, _)
\* The Board State after the first `count` moves of `queue`, each executed
\* under relaxed legality on the state the one before it left.
AppliedUpTo(c, queue, count) ==
    IF count = 0 THEN c
    ELSE move(AppliedUpTo(c, queue, count - 1), queue[count], TRUE).chess

C23_ActiveColorFollowsTurn ==
    [][/\ \A index \in DOMAIN matches' :
             matches'[index].activeColor = matches'[index].chess.turn
       /\ last'.op = "move" =>
             LET index == last'.matchIndex
             IN /\ matches'[index].lastMoveTime = now
                /\ matches'[index].chess.turn =
                      IF last'.fired THEN matches[index].chess.turn
                      ELSE invertColor(matches[index].chess.turn)]_vars

\* A premove has just fired behind a move made after time had passed.
C23_PremoveFiredLater ==
    /\ last.op = "move" /\ last.fired
    /\ now > StartTime
    /\ matches[last.matchIndex].lastMoveTime = now

\* This step is one run of Game.updateTime(now) over every match (the poll).
UpdateTimeStep == last'.op = "poll"

\* C24 as stated: updateTime(now) takes the time elapsed since the last-move
\* timestamp off the clock of the active color, leaves the other clock alone
\* and resets the last-move timestamp to now.
C24_UpdateTimeReanchors ==
    [][UpdateTimeStep =>
          \A index \in DOMAIN matches :
              LET match == matches[index]
                  after == matches'[index]
                  elapsed == now - match.lastMoveTime
                  other == invertColor(match.activeColor)
              IN /\ ClockOf(after, match.activeColor)
                       = ClockOf(match, match.activeColor) - elapsed
                 /\ ClockOf(after, other) = ClockOf(match, other)
                 /\ after.lastMoveTime = now]_vars

\* C24 as the code has it: updateTime(now) sets the clock of the active
\* color to the value it had at the last turn switch less the time elapsed
\* since the last-move timestamp, and leaves the other clock, the timestamp
\* and the value kept from the last turn switch alone.
C24_UpdateTimeChargesFromLastSwitch ==
    [][UpdateTimeStep =>
          \A index \in DOMAIN matches :
              LET match == matches[index]
                  after == matches'[index]
                  elapsed == now - match.lastMoveTime
                  other == invertColor(match.activeColor)
              IN /\ ClockOf(after, match.activeColor)
                       = match.playerTimeSinceMove - elapsed
                 /\ ClockOf(after, other) = ClockOf(match, other)
                 /\ after.lastMoveTime = match.lastMoveTime
                 /\ after.playerTimeSinceMove = match.playerTimeSinceMove
                 /\ after.activeColor = match.activeColor]_vars

\* A poll has run twice as long after the start as one tick: the white
\* clock of the first board shows both ticks gone.
C24_ClockChargedAfterTwoTicks ==
    /\ last.op = "poll"
    /\ matches[0].activeColor = WHITE
    /\ matches[0].lastMoveTime = StartTime
    /\ now = StartTime + 2 * TickMs
    /\ matches[0].whiteTime = defaultTime - 2 * TickMs

\* The times of call tried from a state: now and up to two ticks later.
CallTimes == {now, now + 1, now + TickMs, now + 2 * TickMs}

\* C25: repeated updateTime calls charge no elapsed time twice: two calls
\* with the same time leave a match as one call does, and for now1 <= now2
\* the calls updateTime(now1); updateTime(now2) leave it as the single call
\* updateTime(now2) does, for one match and for the whole game.
C25_RepeatedUpdateTimeIsSafe ==
    \A now1 \in CallTimes : \A now2 \in {t \in CallTimes : now1 <= t} :
        /\ \A index \in DOMAIN matches :
              /\ MatchUpdateTime(MatchUpdateTime(matches[index], now1), now1)
                    = MatchUpdateTime(matches[index], now1)
              /\ MatchUpdateTime(MatchUpdateTime(matches[index], now1), now2)
                    = MatchUpdateTime(matches[index], now2)
        /\ GameUpdateTime(GameUpdateTime(matches, now1), now2)
              = GameUpdateTime(matches, now2)

\* A poll has charged the running clock of the first board, and another
\* call at the same time changes nothing.
C25_SecondCallChangesNothing ==
    /\ last.op = "poll"
    /\ ClockOf(matches[0], matches[0].activeColor) < matches[0].playerTimeSinceMove
    /\ GameUpdateTime(matches, now) = matches

\* Every seat of every match is held by a player whose status is READY.
AllSeatedReady(ms, ps) ==
    \A index \in DOMAIN ms : \A color \in Colors :
        /\ getPlayer(ms[index], color) # NoPlayer
        /\ getPlayer(ms[index], color) \in DOMAIN ps
        /\ ps[getPlayer(ms[index], color)] = READY

\* C26: the room becomes PLAYING only by tryStartRoom (the toggle-ready
\* handler), from LOBBY, with both seats of every match held by READY
\* players; when that does not hold tryStartRoom changes nothing.
C26_StartsOnlyWhenAllSeatedReady ==
    [][/\ (status # PLAYING /\ status' = PLAYING) =>
             /\ status = LOBBY
             /\ last'.op = "toggle-ready"
             /\ AllSeatedReady(matches, players')
       /\ (last'.op = "toggle-ready" /\ ~AllSeatedReady(matches, players')) =>
             /\ status' = status
             /\ matches' = matches]_vars

\* The room is playing with the first board's White player also seated as
\* Black on the second board.
C26_StartedWithSharedSeat ==
    /\ status = PLAYING
    /\ matches[1].blackPlayer = SeatId(0, WHITE)
    /\ last.op = "toggle-ready"

\* C27: every step from LOBBY into PLAYING leaves each match with a reset
\* board state, both clocks at the starting value and an empty premove
\* queue, whatever the game before left.
C27_StartLeavesFreshMatches ==
    [][(status = LOBBY /\ status' = PLAYING) =>
          \A index \in DOMAIN matches' :
              /\ matches'[index].chess = reset
              /\ matches'[index].whiteTime = defaultTime
              /\ matches'[index].blackTime = defaultTime
              /\ matches'[index].premoves = << >>]_vars

\* C28: an ended game is not followed by a game at once: endRoom leaves the
\* room in LOBBY with every player who stays NOT_READY, so that tryStartRoom
\* called right after it returns false; a player becomes READY only by
\* toggle-ready, and the room becomes PLAYING only when every seat is held
\* by a READY player.
C28_NoStartRightAfterEnd ==
    [][/\ (status = PLAYING /\ status' # PLAYING) =>
             /\ status' = LOBBY
             /\ \A id \in DOMAIN players' : players'[id] = NOT_READY
             /\ ~CanStart(matches', players')
       /\ \A id \in DOMAIN players \cap DOMAIN players' :
             (players[id] # READY /\ players'[id] = READY) =>
                 last'.op = "toggle-ready"
       /\ status' = PLAYING =>
             \A index \in DOMAIN matches' : \A color \in Colors :
                 /\ getPlayer(matches'[index], color) \in DOMAIN players'
                 /\ players'[getPlayer(matches'[index], color)] \in {READY, "disconnected"}]_vars

\* A game with a move played has been ended by a resignation; the player who
\* had dropped out during it is gone from the room and from the seat.
C28_EndedWithSeatFreed ==
    /\ status = LOBBY
    /\ last.op = "resign-room"
    /\ matches[0].chess # reset
    /\ Leaver \notin DOMAIN players
    /\ matches[1].blackPlayer = NoPlayer
    /\ \A id \in DOMAIN players : players[id] = NOT_READY

\* C29: a rejected move or drop and a legality query change nothing: on
\* every match, a strict move or drop that Chess.move refuses leaves the
\* Chess as it was and Game.tryAddMove leaves every match as it was, and
\* isLegalDrop leaves every square as it was.
C29_RejectedAndQueriesChangeNothing ==
    \A index \in DOMAIN matches :
        LET c == matches[index].chess
        IN /\ \A action \in ActionsOn(c) :
                  ~move(c, action, FALSE).success =>
                      /\ move(c, action, FALSE).chess = c
                      /\ tryApplyMove(matches, index, action, now) = matches
           /\ \A pos \in Squares : \A color \in Colors :
                  \A type \in DOMAIN getPocket(c, color) :
                      AfterIsLegalDrop(c, pos, type, color) = c

\* C30: called with a match index outside [0, n), every Game operation that
\* takes an index returns an unsuccessful or empty result, raises no error
\* and changes no state.
C30_OutOfRangeIndexIsRefusedQuietly ==
    [][(last'.op \in GameOperations \cup {"TypeError"}
            /\ last'.matchIndex \notin DOMAIN matches) =>
          /\ last'.op # "TypeError"
          /\ matches' = matches]_vars

\* C31: in every state reached by successful strict moves and drops each
\* board holds exactly one King of each color, no pocket holds a King, and no
\* strict move is accepted that takes a King (so none reports one captured).
C31_OneKingOfEachColor ==
    \A index \in DOMAIN matches :
        LET c == matches[index].chess
        IN /\ \A color \in Colors :
                  /\ Cardinality(KingSquares(c, color)) = 1
                  /\ KING \notin DOMAIN getPocket(c, color)
           /\ last.captured.type # KING
           /\ \A color \in Colors : \A square \in KingSquares(c, color) :
                  \A from \in {sq \in Squares : IsPiece(c.board[sq.row][sq.col])} :
                      LET result == move(c, Move(from, Sq(square[1], square[2])), FALSE)
                      IN result.success => result.captured.type # KING

\* C32: every pocket entry has a count of at least 1, a pocket position
\* yields a piece exactly when its pocket has an entry for the kind, and no
\* pocket has an entry for PromotedQueen.
C32_PocketEntriesArePositive ==
    \A index \in DOMAIN matches : \A color \in Colors :
        LET c == matches[index].chess
            pocket == getPocket(c, color)
        IN /\ \A type \in DOMAIN pocket : pocket[type] >= 1
           /\ PROMOTED_QUEEN \notin DOMAIN pocket
           /\ \A type \in {PAWN, KNIGHT, BISHOP, ROOK, QUEEN, KING, PROMOTED_QUEEN} :
                  IsPiece(getPiece(c, PocketPosition(color, type)))
                      <=> type \in DOMAIN pocket

\* A drop has been accepted and has used up the last pawn of the pocket it
\* came from: the pocket has no pawn entry any more.
C32_LastPawnDropped ==
    /\ last.op = "move"
    /\ last.move.from.loc = "pocket"
    /\ PAWN \notin DOMAIN getPocket(matches[last.matchIndex].chess,
                                    last.move.from.color)

\* The color a queued move belongs to: that of the pocket it drops from, or
\* of the piece on its origin once the moves queued before it are applied.
QueuedColor(c, queue, place) ==
    IF queue[place].from.loc = "pocket" THEN queue[place].from.color
    ELSE LET before == AppliedUpTo(c, queue, place - 1)
         IN before.board[queue[place].from.row][queue[place].from.col].color

\* C33: every move in a match's premove queue belongs to the color that is
\* not to move on that board.
C33_QueuedMovesBelongToWaitingColor ==
    \A index \in DOMAIN matches :
        \A place \in 1 .. Len(matches[index].premoves) :
            QueuedColor(matches[index].chess, matches[index].premoves, place)
                = invertColor(matches[index].chess.turn)

\* C34: relaxed legality only removes tests: on every board reached, a board
\* move accepted by isLegalMove is accepted by isLegalPremove and a drop
\* accepted by isLegalDrop is accepted by isLegalPredrop.
C34_StrictlyLegalIsRelaxedLegal ==
    \A index \in DOMAIN matches :
        LET c == matches[index].chess
        IN \A action \in ActionsOn(c) :
              IF action.from.loc = "pocket"
              THEN isLegalDrop(c, action.to, action.from.type, action.from.color)
                      => isLegalPredrop(c, action.from, action.to)
              ELSE isLegalMove(c, action.from, action.to)
                      => isLegalPremove(c, action.from, action.to)

\* White, to move on the first board, holds a pawn it may drop on a4: a
\* drop and a board move are strictly legal, and the relaxed test accepts a
\* board move the strict test refuses.
C34_DropAndMoveStrictlyLegal ==
    LET c == matches[0].chess
    IN /\ isLegalDrop(c, Sq(4, 0), PAWN, WHITE)
       /\ \E action \in ActionsOn(c) :
             /\ action.from.loc = "board"
             /\ isLegalMove(c, action.from, action.to)
       /\ \E action \in ActionsOn(c) :
             /\ action.from.loc = "board"
             /\ isLegalPremove(c, action.from, action.to)
             /\ ~isLegalMove(c, action.from, action.to)

\* C35: a successful strict move on a match with a non-empty queue is
\* followed by one firing attempt, on the oldest entry: when that entry is
\* strictly legal after the move it alone is executed and removed, the rest
\* of the queue staying in order, otherwise the queue is emptied and nothing
\* is executed; after a refused strict move no attempt is made, and the
\* queues of the other matches are left alone.
C35_OnlyTheOldestPremoveFires ==
    [][\A index \in DOMAIN matches :
          LET queue == matches[index].premoves
              chess == matches[index].chess
          IN IF last'.op = "move" /\ last'.matchIndex = index /\ Len(queue) > 0
             THEN LET played == move(chess, last'.move, FALSE).chess
                      result == move(played, Head(queue), FALSE)
                  IN /\ matches'[index].chess.board = result.chess.board
                     /\ IF result.success
                        THEN /\ matches'[index].premoves = Tail(queue)
                             /\ matches'[index].chess.turn = chess.turn
                        ELSE /\ matches'[index].premoves = << >>
                             /\ matches'[index].chess.turn = invertColor(chess.turn)
             ELSE IF last'.op \in {"move", "move-rejected"}
             THEN matches'[index].premoves = queue
             ELSE TRUE]_vars

\* A move has been answered by the head of a queue of two premoves; the
\* second is still waiting.
C35_HeadFiredSecondWaits ==
    /\ last.op = "move"
    /\ last.fired
    /\ Len(matches[last.matchIndex].premoves) = 1

RECURSIVE PocketTotal(_, _)
\* The number of pieces a pocket holds, summed over the kinds of `types`.
PocketTotal(pocket, types) ==
    IF types = {} THEN 0
    ELSE LET type == CHOOSE t \in types : TRUE
         IN pocket[type] + PocketTotal(pocket, types \ {type})

\* Pieces on the board of a match plus the pieces in its two pockets.
Material(match) ==
    Cardinality({sq \in Squares : IsPiece(match.chess.board[sq.row][sq.col])})
    + PocketTotal(match.chess.whitePocket, DOMAIN match.chess.whitePocket)
    + PocketTotal(match.chess.blackPocket, DOMAIN match.chess.blackPocket)

\* C36: in a room of two matches of opposite flipped, the pieces on both
\* boards and in all four pockets number 64 after every sequence of moves,
\* captures and drops.
C36_MaterialIsConserved ==
    (DOMAIN matches = 0 .. 1 /\ matches[0].flipped # matches[1].flipped) =>
        Material(matches[0]) + Material(matches[1]) = 64

\* The clock of `color` once updateTime(currentTime) has run on the match.
ClockAt(match, currentTime, color) ==
    ClockOf(MatchUpdateTime(match, currentTime), color)

\* C37: a match starts with both clocks at the starting value; from then on
\* every millisecond that passes is taken, once updateTime has run, from the
\* clock of the color that has the turn and from no other, and a move or a
\* premove that fires takes nothing from either clock: the two clocks after
\* updateTime(t) add up to twice the starting value less the time since the
\* start.
C37_ClocksAreConserved ==
    [][\A index \in DOMAIN matches : \A color \in Colors :
          /\ (status # PLAYING /\ status' = PLAYING) =>
                ClockAt(matches'[index], now', color) = defaultTime
          /\ (status = PLAYING /\ status' = PLAYING) =>
                ClockAt(matches'[index], now', color)
                    = ClockAt(matches[index], now, color)
                      - (IF color = matches[index].chess.turn
                         THEN now' - now ELSE 0)]_vars

\* Black's premove has fired behind a move of White made after time had
\* passed: White's clock is charged, Black's is not.
C37_PremoveFiredAtNoCost ==
    /\ status = PLAYING
    /\ last.op = "move"
    /\ last.fired
    /\ matches[0].whiteTime < defaultTime
    /\ matches[0].blackTime = defaultTime

\* The color a move belongs to: that of the pocket it drops from or of the
\* piece on its origin.
MoverColor(c, action) ==
    IF action.from.loc = "pocket" THEN action.from.color
    ELSE c.board[action.from.row][action.from.col].color

\* C38: the move-board handler lets a player move only the side they are
\* seated at: a request it accepts for a board comes from the player who
\* holds, on that board, the seat of the color of the piece moved or dropped.
C38_OnlyOwnSideIsMoved ==
    \A id \in DOMAIN players : \A boardID \in DOMAIN matches :
        \A color \in Colors : \A action \in ClockLine :
            MoveBoardAccepts(id, boardID, color, action) =>
                getPlayer(matches[boardID],
                          MoverColor(matches[boardID].chess, action)) = id

\* C39: no player is seated on both teams: any two seats held by the same
\* player are of the same team, so nobody holds both seats of one match.
C39_NobodySitsOnBothTeams ==
    \A index1 \in DOMAIN matches : \A index2 \in DOMAIN matches :
        \A color1 \in Colors : \A color2 \in Colors :
            (/\ getPlayer(matches[index1], color1) # NoPlayer
             /\ getPlayer(matches[index1], color1) = getPlayer(matches[index2], color2))
                => getTeam(matches[index1], color1) = getTeam(matches[index2], color2)

\* The first board's White player has left that seat and has taken Black's
\* seat on the same board, on the other team, with White's seat still empty.
C39_ChangedTeamAfterLeaving ==
    /\ last.op = "join-board"
    /\ matches[0].whitePlayer = NoPlayer
    /\ matches[0].blackPlayer = SeatId(0, WHITE)


\* The strictly legal moves of a pawn diagonally onto a square that holds no
\* piece.
EnPassantMoves(c) ==
    LET pawns == {sq \in Squares : c.board[sq.row][sq.col].type = PAWN}
        diagonals == UNION {{Move(from, Sq(row, col)) :
                                row \in {from.row - 1, from.row + 1} \cap Rows,
                                col \in {from.col - 1, from.col + 1} \cap Rows} :
                            from \in pawns}
    IN {action \in diagonals :
           /\ ~IsPiece(c.board[action.to.row][action.to.col])
           /\ isLegalMove(c, action.from, action.to)}

\* C40: a pawn may move diagonally onto an empty square only when that
\* square is the en-passant target and the move before was the double push
\* of the opposing pawn now beside it; the capture takes that pawn off the
\* square (origin row, destination column), reports it as captured and
\* credits it to the boards of the other orientation like any capture.
C40_EnPassantTakesTheDoublePushedPawn ==
    [][\A index \in DOMAIN matches :
          LET c == matches[index].chess
          IN \A action \in EnPassantMoves(c) :
                LET from == action.from
                    to == action.to
                    beside == Sq(from.row, to.col)
                    pawn == Piece(PAWN, invertColor(c.turn))
                IN /\ c.enPassantTarget = to
                   /\ c.board[from.row][to.col] = pawn
                   /\ (last.op = "move" /\ ~last.fired) =>
                         /\ last.matchIndex = index
                         /\ last.move.to = beside
                         /\ Abs(last.move.to.row - last.move.from.row) = 2
                   /\ (last'.op = "move" /\ last'.matchIndex = index
                       /\ last'.move = action) =>
                         /\ ~IsPiece(matches'[index].chess.board[from.row][to.col])
                         /\ matches'[index].chess.board[to.row][to.col]
                               = Piece(PAWN, c.turn)
                         /\ last'.captured = pawn
                         /\ \A other \in DOMAIN matches :
                               matches[other].flipped # matches[index].flipped =>
                                   Pockets(matches'[other])
                                       = PocketsPlus(matches[other], pawn)]_vars

\* White has just taken en passant on the first board: its pawn stands on
\* d6, d5 is empty and the capture is reported as a black pawn.
C40_TakenEnPassant ==
    /\ last.op = "move"
    /\ last.move = Move(Sq(3, 4), Sq(2, 3))
    /\ last.captured = Piece(PAWN, BLACK)
    /\ matches[0].chess.board[2][3] = Piece(PAWN, WHITE)
    /\ ~IsPiece(matches[0].chess.board[3][3])

====
